---- MODULE Spec2Model ----
(***************************************************************************)
(* State-machine model of the file-sync server (server/src/handler/sync.rs *)
(* and the modules it uses): the upload, delete and sync handlers, the     *)
(* in-memory file history, the file_event table and the mirrored tree.     *)
(*                                                                         *)
(* Strings are sequences of one-character strings, so that splitting,      *)
(* trimming and the first-character test of MatchablePath are computed.    *)
(***************************************************************************)
EXTENDS Integers, Sequences, FiniteSets, TLC

(***************************************************************************)
(* Bounds of the model                                                     *)
(***************************************************************************)
\* number of request tasks the runtime runs at the same time
MaxInFlight == 2
\* number of requests accepted in one behaviour
MaxRequests == 2
\* largest timestamp (client supplied or server clock)
MaxMillis == 2
\* longest path string handed to the MatchablePath constructors
MaxPathLen == 3
\* longest event list handed to InMemoryFileHistory::from
MaxEvents == 3
\* poll cycles of a client in one behaviour
MaxCycles == 3

(***************************************************************************)
(* Values                                                                  *)
(***************************************************************************)
\* Option<T>: None is the empty sequence, Some(x) the one-element sequence
None == <<>>
Some(x) == <<x>>
IsSome(o) == o /= <<>>
Unwrap(o) == o[1]
ChangeEvent == "change"
DeleteEvent == "delete"

WatchGroups == {1}

\* StatusCode values used by the handlers
BAD_REQUEST == 400
INTERNAL_SERVER_ERROR == 500
NOT_FOUND == 404
OK == 200

Whitespace == {" "}
\* the ASCII punctuation characters that occur in the modelled inputs
AsciiPunctuation == {".", "~", "/", "-", "_"}

(***************************************************************************)
(* Sequence helpers                                                        *)
(***************************************************************************)
Last(s) == s[Len(s)]

Front(s) == SubSeq(s, 1, Len(s) - 1)

RECURSIVE Concat(_)
Concat(ss) == IF ss = <<>> THEN <<>> ELSE Head(ss) \o Concat(Tail(ss))

RECURSIVE SumLen(_)
SumLen(ss) == IF ss = <<>> THEN 0 ELSE Len(Head(ss)) + SumLen(Tail(ss))

Range(s) == {s[i] : i \in DOMAIN s}

Perms(S) == {f \in [1..Cardinality(S) -> S] : \A x \in S : \E i \in DOMAIN f : f[i] = x}

(***************************************************************************)
(* str::split and str::trim                                                *)
(***************************************************************************)
RECURSIVE SplitAcc(_, _, _)
SplitAcc(s, sep, cur) ==
    IF s = <<>> THEN <<cur>>
    ELSE IF Head(s) = sep THEN <<cur>> \o SplitAcc(Tail(s), sep, <<>>)
    ELSE SplitAcc(Tail(s), sep, Append(cur, Head(s)))

\* t.split("/") : always at least one (possibly empty) item
Split(s, sep) == SplitAcc(s, sep, <<>>)

RECURSIVE TrimStart(_)
TrimStart(s) == IF s /= <<>> /\ Head(s) \in Whitespace THEN TrimStart(Tail(s)) ELSE s

RECURSIVE TrimEnd(_)
TrimEnd(s) == IF s /= <<>> /\ Last(s) \in Whitespace THEN TrimEnd(Front(s)) ELSE s

Trim(s) == TrimEnd(TrimStart(s))

(***************************************************************************)
(* MatchablePath (shared/src/matchable_path.rs)                            *)
(***************************************************************************)
\* impl From<Vec<String>> for MatchablePath: trim every item, keep the items
\* that are non-empty and do not start with ASCII punctuation; no emptiness
\* check on the result
MatchablePathFromVec(value) ==
    LET trimmed == [i \in DOMAIN value |-> Trim(value[i])]
    IN SelectSeq(trimmed, LAMBDA item : item /= <<>> /\ Head(item) \notin AsciiPunctuation)

\* Path::components() filtered to Component::Normal (unix): the pieces between
\* '/' that are neither empty nor "." nor ".."; nothing is trimmed
NormalComponents(raw) ==
    SelectSeq(Split(raw, "/"),
              LAMBDA c : c /= <<>> /\ c /= <<".">> /\ c /= <<".", ".">>)

\* MatchablePath::new panics on an empty vector
MatchablePathNewPanics(vec) == vec = <<>>

\* impl From<&Path> / From<&str> for MatchablePath: the vector handed to
\* MatchablePath::new
MatchablePathFromStr(raw) == NormalComponents(raw)

\* what a constructor call ends in: a path, a panic of the calling task, or
\* an error value
PathOk(p) == [outcome |-> "ok", path |-> p]
PathPanic == [outcome |-> "panic", path |-> <<>>]
PathErr == [outcome |-> "err", path |-> <<>>]

\* MatchablePath::from(Path::new(raw)), also From<&str> and From<PathBuf>
FromPath(raw) ==
    IF MatchablePathNewPanics(NormalComponents(raw))
    THEN PathPanic
    ELSE PathOk(NormalComponents(raw))

\* the upload route: t.split("/") handed to From<Vec<String>>
FromSegments(raw) == PathOk(MatchablePathFromVec(Split(raw, "/")))

\* impl Deserialize for MatchablePath: MatchablePath::from(path), then the
\* test `matchable.0.is_empty()` that returns Err(Error::custom(..))
DeserializePath(raw) ==
    LET matchable == FromPath(raw)
    IN IF matchable.outcome = "panic" THEN PathPanic
       ELSE IF matchable.path = <<>> THEN PathErr
       ELSE matchable

(***************************************************************************)
(* Filesystem below UPLOAD_PATH: a map from a path (sequence of segments,  *)
(* <<>> is UPLOAD_PATH itself) to a directory or a file with its content   *)
(***************************************************************************)
Dir == [kind |-> "dir"]
File(c) == [kind |-> "file", content |-> c]

IsDir(fs, p) == p \in DOMAIN fs /\ fs[p].kind = "dir"
IsFile(fs, p) == p \in DOMAIN fs /\ fs[p].kind = "file"

Prefixes(p) == {SubSeq(p, 1, n) : n \in 0..Len(p)}

\* fn upload_path_for_wg: UPLOAD_PATH.join(wg_id.to_string())
upload_path_for_wg(wg_id) == << <<ToString(wg_id)>> >>

\* Path::exists: the entry is there and every ancestor is a directory
Exists(fs, p) == p \in DOMAIN fs

\* std::fs::create_dir_all: fails when a component is a regular file
CreateDirAllOk(fs, p) == \A q \in Prefixes(p) : ~IsFile(fs, q)
CreateDirAll(fs, p) ==
    [q \in DOMAIN fs \cup Prefixes(p) |-> IF q \in DOMAIN fs THEN fs[q] ELSE Dir]

\* std::fs::rename of a regular file onto target: the parent must be a
\* directory and the target must not be a directory
RenameOk(fs, target) == IsDir(fs, Front(target)) /\ ~IsDir(fs, target)
RenameInto(fs, target, content) ==
    [q \in DOMAIN fs \cup {target} |-> IF q = target THEN File(content) ELSE fs[q]]

\* fs::remove_file: only a regular file can be removed
RemoveFileOk(fs, p) == IsFile(fs, p)
RemoveFile(fs, p) == [q \in DOMAIN fs \ {p} |-> fs[q]]

(***************************************************************************)
(* FileEvent and InMemoryFileHistory (server/src/file_history.rs)          *)
(***************************************************************************)
\* FileEvent::new; the id (a fresh uuid) and client_host are carried along
\* unread by every handler and are left out
FileEvent(utc_millis, relative_path, size_in_bytes, event_type, watch_group_id) ==
    [utc_millis |-> utc_millis, relative_path |-> relative_path,
     size_in_bytes |-> size_in_bytes, event_type |-> event_type,
     watch_group_id |-> watch_group_id]

\* HistoryStore = HashMap<i64, HashMap<MatchablePath, Vec<FileEvent>>>:
\* a function whose domain is the set of keys present
EmptyMap == [x \in {} |-> <<>>]

\* add that puts the event in front of the vector
HistoryAdd_Prepend(store, event) ==
    LET wg == event.watch_group_id
        wg_map == IF wg \in DOMAIN store THEN store[wg] ELSE EmptyMap
        key == event.relative_path
        vec == IF key \in DOMAIN wg_map THEN wg_map[key] ELSE <<>>
        new_map == [k \in DOMAIN wg_map \cup {key} |->
                        IF k = key THEN <<event>> \o vec ELSE wg_map[k]]
    IN [w \in DOMAIN store \cup {wg} |-> IF w = wg THEN new_map ELSE store[w]]

\* add keyed by the path alone: every event goes to the map of watch group 1
HistoryAdd_OneGroup(store, event) ==
    LET wg == 1
        wg_map == IF wg \in DOMAIN store THEN store[wg] ELSE EmptyMap
        vec == IF event.relative_path \in DOMAIN wg_map
               THEN wg_map[event.relative_path] ELSE <<>>
        new_map == [q \in DOMAIN wg_map \cup {event.relative_path} |->
                       IF q = event.relative_path THEN Append(vec, event) ELSE wg_map[q]]
    IN [w \in DOMAIN store \cup {wg} |-> IF w = wg THEN new_map ELSE store[w]]

\* InMemoryFileHistory::add: entry(wg).or_default().entry(path).or_default().push
HistoryAdd(store, event) ==
    LET wg == event.watch_group_id
        wg_map == IF wg \in DOMAIN store THEN store[wg] ELSE EmptyMap
        key == event.relative_path
        vec == IF key \in DOMAIN wg_map THEN wg_map[key] ELSE <<>>
        new_map == [k \in DOMAIN wg_map \cup {key} |->
                        IF k = key THEN Append(vec, event) ELSE wg_map[k]]
    IN [w \in DOMAIN store \cup {wg} |-> IF w = wg THEN new_map ELSE store[w]]

\* InMemoryFileHistory::get_events
get_events(store, wg_id, path) ==
    IF wg_id \in DOMAIN store /\ path \in DOMAIN store[wg_id]
    THEN Some(store[wg_id][path]) ELSE None

\* InMemoryFileHistory::get_latest_event: vec.last()
get_latest_event(store, wg_id, path) ==
    LET vec == get_events(store, wg_id, path)
    IN IF vec = None \/ Unwrap(vec) = <<>> THEN None ELSE Some(Last(Unwrap(vec)))

\* get_latest_events leaving out the paths whose last event is a delete
get_latest_events_ChangesOnly(store, wg_id) ==
    IF wg_id \notin DOMAIN store THEN {<<>>}
    ELSE LET wg_map == store[wg_id]
             keys == {k \in DOMAIN wg_map :
                         wg_map[k] /= <<>> /\ Last(wg_map[k]).event_type = ChangeEvent}
         IN {[i \in DOMAIN order |-> Last(wg_map[order[i]])] : order \in Perms(keys)}

\* InMemoryFileHistory::get_latest_events: the last event of every path of the
\* watch group; the set of results, one for each iteration order of the HashMap
get_latest_events(store, wg_id) ==
    IF wg_id \notin DOMAIN store THEN {<<>>}
    ELSE LET wg_map == store[wg_id]
             keys == {k \in DOMAIN wg_map : wg_map[k] /= <<>>}
         IN {[i \in DOMAIN order |-> Last(wg_map[order[i]])] : order \in Perms(keys)}

\* Vec::is_sorted_by(|a, b| a.utc_millis < b.utc_millis): strictly ascending
IsSortedStrictly(value) ==
    \A i \in 1..(Len(value) - 1) : value[i].utc_millis < value[i + 1].utc_millis

\* one step of a stable sort: the event goes behind the events that are not
\* later than it
RECURSIVE InsertByKey(_, _)
InsertByKey(sorted, e) ==
    IF sorted = <<>> THEN <<e>>
    ELSE IF Last(sorted).utc_millis <= e.utc_millis THEN Append(sorted, e)
    ELSE Append(InsertByKey(Front(sorted), e), Last(sorted))

\* Vec::sort_by_key(|e| e.utc_millis.clone()): stable
RECURSIVE SortByKey(_)
SortByKey(value) ==
    IF value = <<>> THEN <<>>
    ELSE InsertByKey(SortByKey(Front(value)), Last(value))

\* the fold of From<Vec<FileEvent>>: entry(wg).or_default().entry(path)
\* .or_default().push(curr), in the order of the vector
RECURSIVE GroupEvents(_)
GroupEvents(value) ==
    IF value = <<>> THEN EmptyMap
    ELSE HistoryAdd(GroupEvents(Front(value)), Last(value))

\* the same without the sorting step
HistoryFrom_Unsorted(value) == GroupEvents(value)

\* impl From<Vec<FileEvent>> for InMemoryFileHistory: the store it builds
HistoryFrom(value) ==
    GroupEvents(IF IsSortedStrictly(value) THEN value ELSE SortByKey(value))

\* InMemoryFileHistory::sanity_check panics: a vector holds an event of
\* another path, or is not sorted by utc_millis
SanityCheckPanics(store) ==
    \E wg \in DOMAIN store : \E key \in DOMAIN store[wg] :
        \/ \E i \in DOMAIN store[wg][key] : store[wg][key][i].relative_path /= key
        \/ \E i \in 1..(Len(store[wg][key]) - 1) :
              store[wg][key][i].utc_millis > store[wg][key][i + 1].utc_millis

(***************************************************************************)
(* Inputs of the requests                                                  *)
(***************************************************************************)
\* relative_path strings a client may send: "a", "a/b", "./a", "..", ""
RawPaths ==
    { <<"a">>, <<"a", "/", "b">>, <<".", "/", "a">>, <<".", ".">>, <<>> }

\* the file field of a multipart body: its chunks, and whether the stream
\* breaks off with an error after them
FileFields ==
    { [chunks |-> << <<1>> >>, fails |-> FALSE],
      [chunks |-> << <<1>>, <<2>> >>, fails |-> FALSE],
      [chunks |-> << <<1>> >>, fails |-> TRUE] }

\* multipart bodies of POST /sys/upload/{wg_id} that carry every field
\* (malformed: next_field() returns an error after the listed fields)
WellFormedBodies ==
    [utc_millis : {Some(t) : t \in 0..MaxMillis},
     relative_path : {Some(<<"a">>), Some(<<"a", "/", "b">>)},
     event_type : {Some(ChangeEvent)},
     file : {Some(f) : f \in {g \in FileFields : ~g.fails}},
     malformed : {FALSE}]

\* bodies with one thing wrong or unusual: a field missing, a path that is
\* stripped, a stream that breaks, a broken body, a delete event
OddBodies ==
    LET base == [utc_millis |-> Some(1), relative_path |-> Some(<<"a">>),
                 event_type |-> Some(ChangeEvent),
                 file |-> Some([chunks |-> << <<1>> >>, fails |-> FALSE]),
                 malformed |-> FALSE]
    IN { [base EXCEPT !.utc_millis = None],
         [base EXCEPT !.relative_path = None],
         [base EXCEPT !.event_type = None],
         [base EXCEPT !.file = None],
         [base EXCEPT !.file = Some([chunks |-> << <<1>> >>, fails |-> TRUE])],
         [base EXCEPT !.malformed = TRUE],
         [base EXCEPT !.malformed = TRUE, !.file = None],
         [base EXCEPT !.event_type = Some(DeleteEvent)],
         [base EXCEPT !.event_type = Some(DeleteEvent), !.file = None],
         [base EXCEPT !.relative_path = Some(<<".", "/", "a">>)],
         [base EXCEPT !.relative_path = Some(<<>>)] }
       \cup { [base EXCEPT !.relative_path = Some(<<".", ".">>), !.utc_millis = Some(t)] :
                t \in 0..MaxMillis }

MultipartBodies == WellFormedBodies \cup OddBodies

\* X-Client-Id header
ClientIds == {None, Some("c1")}

(***************************************************************************)
(* State                                                                   *)
(***************************************************************************)
VARIABLES
    history,             \* AppState.history : HistoryStore
    db,                  \* rows of table file_event, in insertion order
    upload,              \* the mirrored tree below UPLOAD_PATH
    upload_in_progress,  \* temp files below UPLOAD_TMP_PATH: uuid -> content
    now,                 \* the server clock read by UtcMillis::now()
    tasks,               \* the request tasks of the runtime
    requests,            \* number of requests accepted so far
    sync_request,        \* the last sync request: watch group and client_sync_state
    instructions,        \* the response to it
    arg,                 \* the argument of the library call under test
    ret,                 \* and what it returned
    config_db,           \* tables client, client_watch_group and
                         \* client_watch_group_excluded_dir
    config_tasks,        \* the tasks serving config requests
    client_files,        \* each client's watched directory: path -> size, mtime
    last_scans,          \* main's last_scans entry of each client's watch group
    poll                 \* where each client stands in its poll cycle

configVars == <<config_db, config_tasks>>

clientVars == <<client_files, last_scans, poll>>

vars == <<history, db, upload, upload_in_progress, now, tasks, requests,
          sync_request, instructions, arg, ret, configVars, clientVars>>

Slots == 1..MaxInFlight

IdleTask ==
    [kind |-> "idle", pc |-> "idle", wg_id |-> 0, client_id |-> None,
     event |-> None, temp |-> None, db_result |-> "none",
     status |-> 0, body |-> "", stream |-> None,
     guard |-> FALSE, snapshot |-> <<>>]

\* WatchConfigDto::default()
DefaultWatchConfig ==
    [min_poll_interval_in_ms |-> 5000, watch_groups |-> EmptyMap]

EmptyConfigDb ==
    [client |-> EmptyMap, client_watch_group |-> <<>>, excluded_dir |-> <<>>]

IdleConfigTask ==
    [kind |-> "idle", pc |-> "idle", client_id |-> "", host_name |-> "",
     config |-> DefaultWatchConfig, client |-> None, work |-> EmptyConfigDb,
     todo |-> {}, watch_group_id |-> 0, dirs |-> <<>>,
     status |-> 0, body |-> "", json |-> None]

\* the clients that poll
Pollers == {1, 2}

\* a client between two poll cycles. Besides the locals of loop_scan the
\* record notes what the log shows: whether an execute returned Err or was
\* answered with an error status (failed), whether a delete request or
\* the sync request of the cycle failed (lost), and for every
\* path removed by a Delete instruction and not written since, the delete
\* requests made for it and the cycles and successful scans begun (reverb)
IdlePoll ==
    [pc |-> "sleep", descriptions |-> <<>>, deleted_files |-> <<>>,
     unsent |-> <<>>, todo |-> <<>>, response |-> None, cycles |-> 0,
     failed |-> FALSE, lost |-> FALSE, reverb |-> EmptyMap]

\* no client runs
ClientsIdle ==
    /\ client_files = [c \in Pollers |-> EmptyMap]
    /\ last_scans = [c \in Pollers |-> None]
    /\ poll = [c \in Pollers |-> IdlePoll]

\* no client is registered and no config request is under way
ConfigIdle ==
    /\ config_db = EmptyConfigDb
    /\ config_tasks = [s \in Slots |-> IdleConfigTask]

ServerInit ==
    /\ history = EmptyMap
    /\ db = <<>>
    /\ upload = [p \in {<<>>} |-> Dir]
    /\ upload_in_progress = EmptyMap
    /\ now = 1
    /\ tasks = [s \in Slots |-> IdleTask]
    /\ requests = 0
    /\ ConfigIdle
    /\ ClientsIdle

SyncIdle ==
    /\ sync_request = None
    /\ instructions = <<>>

\* no library call is under test
LibIdle ==
    /\ arg = None
    /\ ret = None

Init == ServerInit /\ SyncIdle /\ LibIdle

(***************************************************************************)
(* POST /sys/upload/{wg_id}                                                *)
(***************************************************************************)
\* write_all_chunks_of_field: the bytes written to the temp file and the
\* result (Ok(total_size_counter) or Err)
write_all_chunks_of_field(field) ==
    [written |-> Concat(field.chunks),
     result |-> IF field.fails THEN None ELSE Some(SumLen(field.chunks))]

\* parse_multipart_request: the dto
ParseDto(body, wg_id, temp) ==
    [utc_millis |-> body.utc_millis,
     relative_path |-> IF IsSome(body.relative_path)
                       THEN Some(Split(Unwrap(body.relative_path), "/")) ELSE None,
     file_event_type |-> body.event_type,
     temp_file_path |-> temp,
     content_size |-> IF IsSome(body.file)
                      THEN write_all_chunks_of_field(Unwrap(body.file)).result ELSE None,
     watch_group_id |-> wg_id]

\* impl TryFrom<ClientFileEventDto> for ClientFileEvent: Err(message) or
\* Ok(event)
ClientFileEventTryFrom(dto) ==
    IF dto.utc_millis = None
    THEN [ok |-> FALSE, err |-> "Missing field 'utc_millis'"]
    ELSE IF dto.relative_path = None
    THEN [ok |-> FALSE, err |-> "Missing field 'relative_path'"]
    ELSE IF dto.file_event_type = None
    THEN [ok |-> FALSE, err |-> "Missing field 'file_event_type'"]
    ELSE IF Unwrap(dto.file_event_type) /= DeleteEvent /\ dto.temp_file_path = None
    THEN [ok |-> FALSE, err |-> "Missing field 'file'"]
    ELSE [ok |-> TRUE,
          event |-> [utc_millis |-> Unwrap(dto.utc_millis),
                     relative_path |-> MatchablePathFromVec(Unwrap(dto.relative_path)),
                     event_type |-> Unwrap(dto.file_event_type),
                     temp_file_path |-> dto.temp_file_path,
                     content_size |-> IF IsSome(dto.content_size)
                                      THEN Unwrap(dto.content_size) ELSE 0,
                     watch_group_id |-> dto.watch_group_id]]

\* impl From<ClientFileEvent> for FileEvent
FileEventFromClient(e) ==
    FileEvent(e.utc_millis, e.relative_path, e.content_size, e.event_type,
              e.watch_group_id)

\* the admission test left out: every upload is taken for the latest
NotLatest_Disabled(store, event) == FALSE

\* the admission test with <= in place of <: an upload as old as the latest
\* event is turned away as well
NotLatest_OrEqual(store, event) ==
    LET latest == get_latest_event(store, event.watch_group_id, event.relative_path)
        utc_millis_of_latest_history_event ==
            IF IsSome(latest) THEN Unwrap(latest).utc_millis ELSE 0
    IN event.utc_millis <= utc_millis_of_latest_history_event

\* the admission test of process_upload: utc_millis of the latest history
\* event (0 when there is none) against the event's
NotLatest(store, event) ==
    LET latest == get_latest_event(store, event.watch_group_id, event.relative_path)
        utc_millis_of_latest_history_event ==
            IF IsSome(latest) THEN Unwrap(latest).utc_millis ELSE 0
    IN event.utc_millis < utc_millis_of_latest_history_event

\* upload_handler's map_err: fs::remove_file of the temp file handed back
RemoveTemp(tmp, temp_file_path) ==
    IF IsSome(temp_file_path)
    THEN [u \in DOMAIN tmp \ {Unwrap(temp_file_path)} |-> tmp[u]]
    ELSE tmp

\* Uuid::new_v4(): a name no temp file has
FreshUuid == CHOOSE u \in 1..(MaxRequests + 1) :
    /\ u \notin DOMAIN upload_in_progress
    /\ \A v \in 1..(u - 1) : v \in DOMAIN upload_in_progress

\* a task that has ended (its response is sent, or it panicked) or never ran
Ended(t) == t.pc \in {"idle", "done", "panicked"}

\* a task that has not served a request yet, the lowest such one
FreshSlot(s) ==
    /\ tasks[s].kind = "idle"
    /\ \A r \in Slots : r < s => tasks[r].kind /= "idle"

\* upload_handler and process_upload up to the admission check:
\* parse_multipart_request streams the file field to
\* upload_in_progress/{uuid}_{name} and builds the dto, the dto becomes a
\* ClientFileEvent, and its utc_millis is compared with the latest history
\* event. The steps before the read of the history touch nothing another
\* task sees.
upload_handler(s, wg_id, client_id, body) ==
    /\ Ended(tasks[s])
    /\ LET uuid == FreshUuid
           streamed == IsSome(body.file)
           w == write_all_chunks_of_field(Unwrap(body.file))
           temp == IF streamed THEN Some(uuid) ELSE None
           tmp == IF streamed
                  THEN [u \in DOMAIN upload_in_progress \cup {uuid} |->
                           IF u = uuid THEN w.written ELSE upload_in_progress[u]]
                  ELSE upload_in_progress
           t == [IdleTask EXCEPT !.kind = "upload", !.wg_id = wg_id, !.temp = temp]
           r == ClientFileEventTryFrom(ParseDto(body, wg_id, temp))
       IN IF streamed /\ w.result = None
          THEN \* write_all_chunks_of_field failed: map_err, `?`
               /\ upload_in_progress' = tmp
               /\ tasks' = [tasks EXCEPT ![s] =
                     [t EXCEPT !.pc = "done", !.status = INTERNAL_SERVER_ERROR,
                               !.body = "Error writing multipart chunks"]]
          ELSE IF body.malformed
          THEN \* multipart.next_field().await.unwrap()
               /\ upload_in_progress' = tmp
               /\ tasks' = [tasks EXCEPT ![s] = [t EXCEPT !.pc = "panicked"]]
          ELSE IF ~r.ok
          THEN /\ upload_in_progress' = RemoveTemp(tmp, temp)
               /\ tasks' = [tasks EXCEPT ![s] =
                     [t EXCEPT !.pc = "done", !.status = BAD_REQUEST, !.body = r.err]]
          ELSE IF NotLatest(history, r.event)
          THEN /\ upload_in_progress' = RemoveTemp(tmp, r.event.temp_file_path)
               /\ tasks' = [tasks EXCEPT ![s] =
                     [t EXCEPT !.pc = "done", !.status = BAD_REQUEST,
                               !.body = "not latest"]]
          ELSE /\ upload_in_progress' = tmp
               /\ tasks' = [tasks EXCEPT ![s] =
                     [t EXCEPT !.pc = "admitted", !.event = Some(r.event),
                               !.client_id = client_id]]
    /\ UNCHANGED <<history, db, upload, now, sync_request, instructions, arg, ret, configVars, clientVars>>

\* one of the MaxRequests requests is an upload
UploadStart(s, wg_id, client_id, body) ==
    /\ requests < MaxRequests
    /\ requests' = requests + 1
    /\ upload_handler(s, wg_id, client_id, body)

\* process_upload going on to the insert although fs::rename failed
UploadPublish_IgnoreRenameError(s) ==
    /\ tasks[s].kind = "upload" /\ tasks[s].pc = "admitted"
    /\ LET event == Unwrap(tasks[s].event)
           target_path == upload_path_for_wg(event.watch_group_id) \o event.relative_path
           parent == Front(target_path)
           with_dirs == CreateDirAll(upload, parent)
       IN IF event.temp_file_path = None
          THEN /\ tasks' = [tasks EXCEPT ![s].pc = "panicked"]
               /\ UNCHANGED <<upload, upload_in_progress>>
          ELSE IF ~CreateDirAllOk(upload, parent)
          THEN /\ tasks' = [tasks EXCEPT ![s] =
                     [@ EXCEPT !.pc = "done", !.status = INTERNAL_SERVER_ERROR,
                               !.body = "Could not create dir"]]
               /\ upload_in_progress' = RemoveTemp(upload_in_progress, event.temp_file_path)
               /\ UNCHANGED upload
          ELSE IF ~RenameOk(with_dirs, target_path)
          THEN /\ tasks' = [tasks EXCEPT ![s].pc = "renamed"]
               /\ upload_in_progress' = RemoveTemp(upload_in_progress, event.temp_file_path)
               /\ upload' = with_dirs
          ELSE /\ tasks' = [tasks EXCEPT ![s].pc = "renamed"]
               /\ upload' = RenameInto(with_dirs, target_path,
                                       upload_in_progress[Unwrap(event.temp_file_path)])
               /\ upload_in_progress' = RemoveTemp(upload_in_progress, event.temp_file_path)
    /\ UNCHANGED <<history, db, now, requests, sync_request, instructions, arg, ret, configVars, clientVars>>

\* process_upload, second part: create_dir_all of the parent, then fs::rename
\* of the temp file onto the target
UploadPublish(s) ==
    /\ tasks[s].kind = "upload" /\ tasks[s].pc = "admitted"
    /\ LET event == Unwrap(tasks[s].event)
           target_path == upload_path_for_wg(event.watch_group_id) \o event.relative_path
           parent == Front(target_path)
           with_dirs == CreateDirAll(upload, parent)
       IN IF event.temp_file_path = None
          THEN \* event.temp_file_path.clone().unwrap()
               /\ tasks' = [tasks EXCEPT ![s].pc = "panicked"]
               /\ UNCHANGED <<upload, upload_in_progress>>
          ELSE IF ~CreateDirAllOk(upload, parent)
          THEN /\ tasks' = [tasks EXCEPT ![s] =
                     [@ EXCEPT !.pc = "done", !.status = INTERNAL_SERVER_ERROR,
                               !.body = "Could not create dir"]]
               /\ upload_in_progress' = RemoveTemp(upload_in_progress, event.temp_file_path)
               /\ UNCHANGED upload
          ELSE IF ~RenameOk(with_dirs, target_path)
          THEN /\ tasks' = [tasks EXCEPT ![s] =
                     [@ EXCEPT !.pc = "done", !.status = INTERNAL_SERVER_ERROR,
                               !.body = "Updating failed"]]
               /\ upload_in_progress' = RemoveTemp(upload_in_progress, event.temp_file_path)
               /\ upload' = with_dirs
          ELSE /\ tasks' = [tasks EXCEPT ![s].pc = "renamed"]
               /\ upload' = RenameInto(with_dirs, target_path,
                                       upload_in_progress[Unwrap(event.temp_file_path)])
               /\ upload_in_progress' = RemoveTemp(upload_in_progress, event.temp_file_path)
    /\ UNCHANGED <<history, db, now, requests, sync_request, instructions, arg, ret, configVars, clientVars>>

\* FileEventRepository::insert: one INSERT; the row, or an sqlx error
InsertRow(rows, event, client_id, sql_ok) ==
    IF sql_ok THEN Append(rows, [event |-> event, client_id |-> client_id]) ELSE rows

\* MatchablePath::to_serialized_string: self.0.join("/")
RECURSIVE to_serialized_string(_)
to_serialized_string(path) ==
    IF path = <<>> THEN <<>>
    ELSE IF Len(path) = 1 THEN path[1]
    ELSE path[1] \o <<"/">> \o to_serialized_string(Tail(path))

\* the event get_all_events builds from a row: the path column was written
\* by to_serialized_string and is read by MatchablePath::from(&str)
RowEvent(row) ==
    [row.event EXCEPT
        !.relative_path = MatchablePathFromStr(to_serialized_string(@))]

\* FileEventRepository::get_all_events: the rows ORDER BY utc_millis ASC,
\* rows of one utc_millis in the order of their insertion
get_all_events(rows) ==
    SortByKey([i \in DOMAIN rows |-> RowEvent(rows[i])])

\* main, `Load history from DB into in-memory store`, panics: a path column
\* without a normal component (MatchablePath::new), or sanity_check
BootPanics(rows) ==
    \/ \E i \in DOMAIN rows :
          MatchablePathNewPanics(
              MatchablePathFromStr(to_serialized_string(rows[i].event.relative_path)))
    \/ SanityCheckPanics(HistoryFrom(get_all_events(rows)))

\* main: InMemoryFileHistory::from(events) of the events get_all_events loads
BootHistory(rows) == HistoryFrom(get_all_events(rows))

\* process_upload, `write to DB`: insert(&fe, cid).await when the client id
\* header is there; an error is logged
UploadInsert(s) ==
    /\ tasks[s].kind = "upload" /\ tasks[s].pc = "renamed"
    /\ LET fe == FileEventFromClient(Unwrap(tasks[s].event))
       IN IF IsSome(tasks[s].client_id)
          THEN \E sql_ok \in BOOLEAN :
                 /\ db' = InsertRow(db, fe, Unwrap(tasks[s].client_id), sql_ok)
                 /\ tasks' = [tasks EXCEPT ![s] =
                       [@ EXCEPT !.pc = "inserted",
                                 !.db_result = IF sql_ok THEN "ok" ELSE "err"]]
          ELSE /\ db' = db
               /\ tasks' = [tasks EXCEPT ![s].pc = "inserted"]
    /\ UNCHANGED <<history, upload, upload_in_progress, now, requests,
                   sync_request, instructions, arg, ret, configVars, clientVars>>

\* process_upload, `add to in-mem state`: history.add(fe), Ok(message)
\* process_upload giving up on a failed insert: 500 and no history.add
UploadAdd_FailOnStorageError(s) ==
    /\ tasks[s].kind = "upload" /\ tasks[s].pc = "inserted"
    /\ IF tasks[s].db_result = "err"
       THEN /\ history' = history
            /\ tasks' = [tasks EXCEPT ![s] =
                  [@ EXCEPT !.pc = "done", !.status = INTERNAL_SERVER_ERROR,
                            !.body = "Storing failed"]]
       ELSE /\ history' = HistoryAdd(history, FileEventFromClient(Unwrap(tasks[s].event)))
            /\ tasks' = [tasks EXCEPT ![s] =
                  [@ EXCEPT !.pc = "done", !.status = OK,
                            !.body = "Updated successfully"]]
    /\ UNCHANGED <<db, upload, upload_in_progress, now, requests,
                   sync_request, instructions, arg, ret, configVars, clientVars>>

UploadAdd(s) ==
    /\ tasks[s].kind = "upload" /\ tasks[s].pc = "inserted"
    /\ history' = HistoryAdd(history, FileEventFromClient(Unwrap(tasks[s].event)))
    /\ tasks' = [tasks EXCEPT ![s] =
          [@ EXCEPT !.pc = "done", !.status = OK, !.body = "Updated successfully",
                    !.guard = FALSE]]
    /\ UNCHANGED <<db, upload, upload_in_progress, now, requests,
                   sync_request, instructions, arg, ret, configVars, clientVars>>

(***************************************************************************)
(* POST /sys/delete/{wg_id}                                                *)
(***************************************************************************)
\* delete up to `if !p.exists()`: the path from the payload, the timestamp
\* from the server clock, the event, and the existence test
delete(s, wg_id, client_id, payload) ==
    /\ Ended(tasks[s])
    /\ LET matchable_path == MatchablePathFromStr(payload)
           p == upload_path_for_wg(wg_id) \o matchable_path
           event == FileEvent(now, matchable_path, 0, DeleteEvent, wg_id)
           t == [IdleTask EXCEPT !.kind = "delete", !.wg_id = wg_id]
       IN tasks' = [tasks EXCEPT ![s] =
             IF MatchablePathNewPanics(matchable_path)
             THEN [t EXCEPT !.pc = "panicked"]
             ELSE [t EXCEPT !.event = Some(event), !.client_id = client_id,
                            !.pc = IF Exists(upload, p) THEN "present" ELSE "absent"]]
    /\ UNCHANGED <<history, db, upload, upload_in_progress, now,
                   sync_request, instructions, arg, ret, configVars, clientVars>>

\* one of the MaxRequests requests is a delete
DeleteStart(s, wg_id, client_id, payload) ==
    /\ requests < MaxRequests
    /\ requests' = requests + 1
    /\ delete(s, wg_id, client_id, payload)

\* the informational message of delete's !p.exists() branch
NothingToDo ==
    "Nothing to do, because file doesn't exist (could've been deleted by someone else)"

\* delete answering the missing file without history.add
DeleteAbsent_NoEvent(s) ==
    /\ tasks[s].kind = "delete" /\ tasks[s].pc = "absent"
    /\ history' = history
    /\ tasks' = [tasks EXCEPT ![s] =
          [@ EXCEPT !.pc = "done", !.status = OK,
                    !.body = NothingToDo]]
    /\ UNCHANGED <<db, upload, upload_in_progress, now, requests,
                   sync_request, instructions, arg, ret, configVars, clientVars>>

\* delete, the file does not exist: history.add(event), (StatusCode::OK, message)
DeleteAbsent(s) ==
    /\ tasks[s].kind = "delete" /\ tasks[s].pc = "absent"
    /\ history' = HistoryAdd(history, Unwrap(tasks[s].event))
    /\ tasks' = [tasks EXCEPT ![s] =
          [@ EXCEPT !.pc = "done", !.status = OK,
                    !.body = NothingToDo, !.guard = FALSE]]
    /\ UNCHANGED <<db, upload, upload_in_progress, now, requests,
                   sync_request, instructions, arg, ret, configVars, clientVars>>

\* delete recording the event although remove_file failed
DeleteRemove_AddOnFailure(s) ==
    /\ tasks[s].kind = "delete" /\ tasks[s].pc = "present"
    /\ LET event == Unwrap(tasks[s].event)
           p == upload_path_for_wg(event.watch_group_id) \o event.relative_path
       IN \E io_ok \in BOOLEAN :
          IF RemoveFileOk(upload, p) /\ io_ok
          THEN /\ upload' = RemoveFile(upload, p)
               /\ history' = history
               /\ tasks' = [tasks EXCEPT ![s].pc = "removed"]
          ELSE /\ upload' = upload
               /\ history' = HistoryAdd(history, event)
               /\ tasks' = [tasks EXCEPT ![s] =
                     [@ EXCEPT !.pc = "done", !.status = INTERNAL_SERVER_ERROR,
                               !.body = "Failed to delete file"]]
    /\ UNCHANGED <<db, upload_in_progress, now, requests,
                   sync_request, instructions, arg, ret, configVars, clientVars>>

\* delete, tokio::fs::remove_file(&p).await: it fails when p is not a regular
\* file (a directory, or gone by now) and may fail on a regular file as well
\* (io_ok: permissions, I/O error)
DeleteRemove(s) ==
    /\ tasks[s].kind = "delete" /\ tasks[s].pc = "present"
    /\ LET event == Unwrap(tasks[s].event)
           p == upload_path_for_wg(event.watch_group_id) \o event.relative_path
       IN \E io_ok \in BOOLEAN :
          IF RemoveFileOk(upload, p) /\ io_ok
          THEN /\ upload' = RemoveFile(upload, p)
               /\ tasks' = [tasks EXCEPT ![s].pc = "removed"]
          ELSE /\ upload' = upload
               /\ tasks' = [tasks EXCEPT ![s] =
                     [@ EXCEPT !.pc = "done", !.status = INTERNAL_SERVER_ERROR,
                               !.body = "Failed to delete file"]]
    /\ UNCHANGED <<history, db, upload_in_progress, now, requests,
                   sync_request, instructions, arg, ret, configVars, clientVars>>

\* delete, `write to DB`
DeleteInsert(s) ==
    /\ tasks[s].kind = "delete" /\ tasks[s].pc = "removed"
    /\ IF IsSome(tasks[s].client_id)
       THEN \E sql_ok \in BOOLEAN :
              /\ db' = InsertRow(db, Unwrap(tasks[s].event),
                                 Unwrap(tasks[s].client_id), sql_ok)
              /\ tasks' = [tasks EXCEPT ![s] =
                    [@ EXCEPT !.pc = "inserted",
                              !.db_result = IF sql_ok THEN "ok" ELSE "err"]]
       ELSE /\ db' = db
            /\ tasks' = [tasks EXCEPT ![s].pc = "inserted"]
    /\ UNCHANGED <<history, upload, upload_in_progress, now, requests,
                   sync_request, instructions, arg, ret, configVars, clientVars>>

\* delete, history.add(event), Ok(())
DeleteAdd(s) ==
    /\ tasks[s].kind = "delete" /\ tasks[s].pc = "inserted"
    /\ history' = HistoryAdd(history, Unwrap(tasks[s].event))
    /\ tasks' = [tasks EXCEPT ![s] =
          [@ EXCEPT !.pc = "done", !.status = OK, !.body = "", !.guard = FALSE]]
    /\ UNCHANGED <<db, upload, upload_in_progress, now, requests,
                   sync_request, instructions, arg, ret, configVars, clientVars>>

(***************************************************************************)
(* POST /sys/sync/{wg_id}                                                  *)
(***************************************************************************)
Upload(p) == [kind |-> "Upload", path |-> p]
Download(p) == [kind |-> "Download", path |-> p]
Delete(p) == [kind |-> "Delete", path |-> p]

\* FileDescription, the fields sync_handler reads
FileDescription(relative_path, size_in_bytes, last_updated_utc_millis) ==
    [relative_path |-> relative_path, size_in_bytes |-> size_in_bytes,
     last_updated_utc_millis |-> last_updated_utc_millis]

\* client_sync_state.iter().find(|d| d.relative_path == path)
FindDescription(client, path) ==
    LET hits == {i \in DOMAIN client : client[i].relative_path = path}
    IN IF hits = {} THEN None
       ELSE Some(client[CHOOSE i \in hits : \A j \in hits : i <= j])

\* InstructionsForEvent that has a client download a path it lacks also
\* when the latest event is a delete
InstructionsForEvent_DownloadDeleted(event, client) ==
    LET found == FindDescription(client, event.relative_path)
        client_equivalent == Unwrap(found)
    IN IF found = None
       THEN <<Download(event.relative_path)>>
       ELSE IF client_equivalent.size_in_bytes = event.size_in_bytes
               /\ event.event_type /= DeleteEvent
       THEN <<>>
       ELSE IF client_equivalent.last_updated_utc_millis < event.utc_millis
       THEN IF event.event_type = ChangeEvent
            THEN <<Download(event.relative_path)>>
            ELSE <<Delete(event.relative_path)>>
       ELSE <<Upload(event.relative_path)>>

\* InstructionsForEvent with the timestamps compared by <= 
InstructionsForEvent_OlderOrEqual(event, client) ==
    LET found == FindDescription(client, event.relative_path)
        client_equivalent == Unwrap(found)
    IN IF found = None
       THEN IF event.event_type /= DeleteEvent
            THEN <<Download(event.relative_path)>> ELSE <<>>
       ELSE IF client_equivalent.size_in_bytes = event.size_in_bytes
               /\ event.event_type /= DeleteEvent
       THEN <<>>
       ELSE IF client_equivalent.last_updated_utc_millis <= event.utc_millis
       THEN IF event.event_type = ChangeEvent
            THEN <<Download(event.relative_path)>>
            ELSE <<Delete(event.relative_path)>>
       ELSE <<Upload(event.relative_path)>>

\* body of `for event in target`: the instructions pushed for one event
InstructionsForEvent(event, client) ==
    LET found == FindDescription(client, event.relative_path)
        client_equivalent == Unwrap(found)
    IN IF found = None
       THEN IF event.event_type /= DeleteEvent
            THEN <<Download(event.relative_path)>> ELSE <<>>
       ELSE IF client_equivalent.size_in_bytes = event.size_in_bytes
               /\ event.event_type /= DeleteEvent
       THEN <<>>
       ELSE IF client_equivalent.last_updated_utc_millis < event.utc_millis
       THEN IF event.event_type = ChangeEvent
            THEN <<Download(event.relative_path)>>
            ELSE <<Delete(event.relative_path)>>
       ELSE <<Upload(event.relative_path)>>

RECURSIVE ForEachEvent(_, _)
ForEachEvent(target, client) ==
    IF target = <<>> THEN <<>>
    ELSE InstructionsForEvent(Head(target), client) \o ForEachEvent(Tail(target), client)

\* the second loop without its test: Upload for every description
ForEachDescription_All(client, target) ==
    [i \in DOMAIN client |-> Upload(client[i].relative_path)]

\* `for desc in client_sync_state`: Upload for the paths target does not hold
RECURSIVE ForEachDescription(_, _)
ForEachDescription(client, target) ==
    IF client = <<>> THEN <<>>
    ELSE (IF \E i \in DOMAIN target : target[i].relative_path = Head(client).relative_path
          THEN <<>> ELSE <<Upload(Head(client).relative_path)>>)
         \o ForEachDescription(Tail(client), target)

\* sync_handler with its two loops in the other order
sync_handler_DescriptionsFirst(target, client) ==
    ForEachDescription(client, target) \o ForEachEvent(target, client)

\* sync_handler: target is history.get_latest_events(wg_id)
sync_handler(target, client) ==
    ForEachEvent(target, client) \o ForEachDescription(client, target)

\* paths and snapshots of the sync requests
SyncPaths == { << <<"a">> >>, << <<"a">>, <<"b">> >> }

FileDescriptions ==
    {FileDescription(p, sz, t) : p \in SyncPaths, sz \in 1..2, t \in 0..MaxMillis}

ClientSnapshots ==
    {<<>>} \cup {<<d>> : d \in FileDescriptions}
           \cup {<<d, e>> : d \in FileDescriptions, e \in FileDescriptions}

SyncHandler(wg_id, client) ==
    /\ \E target \in get_latest_events(history, wg_id) :
          instructions' = sync_handler(target, client)
    /\ sync_request' = Some([wg_id |-> wg_id, client_sync_state |-> client])
    /\ UNCHANGED <<history, db, upload, upload_in_progress, now, tasks, requests,
                   arg, ret, configVars, clientVars>>

\* the events upload and delete requests add to the history
SyncEvents ==
    {FileEvent(t, p, sz, ChangeEvent, wg) :
        t \in 0..MaxMillis, p \in SyncPaths, sz \in 1..2, wg \in WatchGroups}
    \cup {FileEvent(t, p, 0, DeleteEvent, wg) :
        t \in 1..MaxMillis, p \in SyncPaths, wg \in WatchGroups}

\* the histories one or two add calls build
SyncHistories ==
    {EmptyMap} \cup {HistoryAdd(EmptyMap, e) : e \in SyncEvents}
               \cup {HistoryAdd(HistoryAdd(EmptyMap, e), f) : e \in SyncEvents, f \in SyncEvents}

SyncInit ==
    /\ history \in SyncHistories
    /\ db = <<>>
    /\ upload = [p \in {<<>>} |-> Dir]
    /\ upload_in_progress = EmptyMap
    /\ now = 1
    /\ tasks = [s \in Slots |-> IdleTask]
    /\ requests = 0
    /\ SyncIdle
    /\ LibIdle
    /\ ConfigIdle
    /\ ClientsIdle

SyncNext ==
    /\ sync_request = None
    /\ \E wg_id \in WatchGroups, client \in ClientSnapshots : SyncHandler(wg_id, client)

\* one sync request against each history of SyncHistories
SpecSync == SyncInit /\ [][SyncNext]_vars

\* three paths, so that a response can hold an instruction for a path of the
\* history followed by Uploads for two paths the history lacks
OrderPaths == SyncPaths \cup { << <<"b">> >> }

OrderDescriptions == {FileDescription(p, 1, t) : p \in OrderPaths, t \in 0..1}

OrderSnapshots ==
    {<<>>} \cup {<<d>> : d \in OrderDescriptions}
           \cup {<<d, e>> : d \in OrderDescriptions, e \in OrderDescriptions}
           \cup {<<d, e, f>> : d \in OrderDescriptions, e \in OrderDescriptions,
                               f \in OrderDescriptions}

OrderEvents ==
    {FileEvent(t, p, sz, ChangeEvent, wg) :
        t \in 0..1, p \in OrderPaths, sz \in 1..2, wg \in WatchGroups}
    \cup {FileEvent(1, p, 0, DeleteEvent, wg) : p \in OrderPaths, wg \in WatchGroups}

OrderHistories ==
    {EmptyMap} \cup {HistoryAdd(EmptyMap, e) : e \in OrderEvents}
               \cup {HistoryAdd(HistoryAdd(EmptyMap, e), f) : e \in OrderEvents, f \in OrderEvents}

OrderInit ==
    /\ history \in OrderHistories
    /\ db = <<>>
    /\ upload = [p \in {<<>>} |-> Dir]
    /\ upload_in_progress = EmptyMap
    /\ now = 1
    /\ tasks = [s \in Slots |-> IdleTask]
    /\ requests = 0
    /\ SyncIdle
    /\ LibIdle
    /\ ConfigIdle
    /\ ClientsIdle

OrderNext ==
    /\ sync_request = None
    /\ \E wg_id \in WatchGroups, client \in OrderSnapshots : SyncHandler(wg_id, client)

\* one sync request with a snapshot of up to three descriptions
SpecOrder == OrderInit /\ [][OrderNext]_vars

(***************************************************************************)
(* The runtime and the clock                                               *)
(***************************************************************************)
\* chrono::Utc::now() advances
Tick ==
    /\ now < MaxMillis
    /\ now' = now + 1
    /\ UNCHANGED <<history, db, upload, upload_in_progress, tasks, requests,
                   sync_request, instructions, arg, ret, configVars, clientVars>>

AcceptUpload(s) ==
    \E wg_id \in WatchGroups, client_id \in ClientIds, body \in MultipartBodies :
        UploadStart(s, wg_id, client_id, body)

\* the uploads of the concurrent specifications: the bodies that carry every
\* field; the other bodies are explored one request at a time (SpecSeq)
AcceptWellFormedUpload(s) ==
    \E wg_id \in WatchGroups, client_id \in ClientIds, body \in WellFormedBodies :
        UploadStart(s, wg_id, client_id, body)

AcceptDelete(s) ==
    \E wg_id \in WatchGroups, client_id \in ClientIds, payload \in RawPaths :
        DeleteStart(s, wg_id, client_id, payload)

NoneInFlight == \A s \in Slots : Ended(tasks[s])

\* one request at a time: the next one is accepted when the previous one has
\* ended
SeqNext ==
    \/ NoneInFlight /\ AcceptUpload(1)
    \/ UploadPublish(1)
    \/ UploadInsert(1)
    \/ UploadAdd(1)
    \/ NoneInFlight /\ AcceptDelete(1)
    \/ DeleteAbsent(1)
    \/ DeleteRemove(1)
    \/ DeleteInsert(1)
    \/ DeleteAdd(1)
    \/ Tick

SpecSeq == Init /\ [][SeqNext]_vars

Next ==
    \/ \E s \in Slots : FreshSlot(s) /\ AcceptWellFormedUpload(s)
    \/ \E s \in Slots : UploadPublish(s)
    \/ \E s \in Slots : UploadInsert(s)
    \/ \E s \in Slots : UploadAdd(s)
    \/ \E s \in Slots : FreshSlot(s) /\ AcceptDelete(s)
    \/ \E s \in Slots : DeleteAbsent(s)
    \/ \E s \in Slots : DeleteRemove(s)
    \/ \E s \in Slots : DeleteInsert(s)
    \/ \E s \in Slots : DeleteAdd(s)
    \/ Tick

\* MaxInFlight upload requests, one to a task, processed concurrently
UploadsNext ==
    \/ \E s \in Slots : FreshSlot(s) /\ AcceptWellFormedUpload(s)
    \/ \E s \in Slots : UploadPublish(s)
    \/ \E s \in Slots : UploadInsert(s)
    \/ \E s \in Slots : UploadAdd(s)

SpecUploads == Init /\ [][UploadsNext]_vars

\* two watch groups served by the same routes (wg_id path parameter)
TwoWatchGroups == {1, 2}

\* uploads for the two watch groups: one file, the paths "a", "a/b" and ".."
GroupBodies ==
    {b \in MultipartBodies :
        /\ IsSome(b.utc_millis) /\ b.event_type = Some(ChangeEvent) /\ ~b.malformed
        /\ b.file = Some([chunks |-> << <<1>> >>, fails |-> FALSE])
        /\ b.relative_path \in {Some(<<"a">>), Some(<<"a", "/", "b">>), Some(<<".", ".">>)}}

\* one request at a time, for either watch group
GroupsNext ==
    \/ /\ NoneInFlight
       /\ \E wg_id \in TwoWatchGroups, client_id \in ClientIds, body \in GroupBodies :
             UploadStart(1, wg_id, client_id, body)
    \/ UploadPublish(1)
    \/ UploadInsert(1)
    \/ UploadAdd(1)
    \/ /\ NoneInFlight
       /\ \E wg_id \in TwoWatchGroups, client_id \in ClientIds,
             payload \in {<<"a">>, <<"a", "/", "b">>} :
             DeleteStart(1, wg_id, client_id, payload)
    \/ DeleteAbsent(1)
    \/ DeleteRemove(1)
    \/ DeleteInsert(1)
    \/ DeleteAdd(1)

SpecGroups == Init /\ [][GroupsNext]_vars

\* the characters of the path strings
PathAlphabet == {"a", ".", "/", " ", "_", "~"}

PathStrings == UNION {[1..n -> PathAlphabet] : n \in 0..MaxPathLen}

\* one path string, not yet handed to any constructor
PathInit ==
    /\ ServerInit
    /\ SyncIdle
    /\ arg \in {Some(raw) : raw \in PathStrings}
    /\ ret = [from_path |-> None, from_segments |-> None, deserialize |-> None]

CallFromPath ==
    /\ ret.from_path = None
    /\ ret' = [ret EXCEPT !.from_path = Some(FromPath(Unwrap(arg)))]
    /\ UNCHANGED <<history, db, upload, upload_in_progress, now, tasks, requests,
                   sync_request, instructions, arg, configVars, clientVars>>

CallFromSegments ==
    /\ ret.from_segments = None
    /\ ret' = [ret EXCEPT !.from_segments = Some(FromSegments(Unwrap(arg)))]
    /\ UNCHANGED <<history, db, upload, upload_in_progress, now, tasks, requests,
                   sync_request, instructions, arg, configVars, clientVars>>

CallDeserialize ==
    /\ ret.deserialize = None
    /\ ret' = [ret EXCEPT !.deserialize = Some(DeserializePath(Unwrap(arg)))]
    /\ UNCHANGED <<history, db, upload, upload_in_progress, now, tasks, requests,
                   sync_request, instructions, arg, configVars, clientVars>>

PathNext == CallFromPath \/ CallFromSegments \/ CallDeserialize

\* every constructor of MatchablePath applied to one path string
SpecPath == PathInit /\ [][PathNext]_vars

\* the events of the lists: two watch groups, two paths, and the size to
\* tell events of one timestamp apart
BootEvents ==
    {FileEvent(t, p, sz, ChangeEvent, wg) :
        t \in 0..MaxMillis, p \in SyncPaths, sz \in 1..2, wg \in TwoWatchGroups}

EventLists == UNION {[1..n -> BootEvents] : n \in 0..MaxEvents}

\* one event list, in any order, not yet handed to from
FromInit ==
    /\ ServerInit
    /\ SyncIdle
    /\ arg \in {Some(value) : value \in EventLists}
    /\ ret = None

\* InMemoryFileHistory::from(value), with its call of sanity_check
CallHistoryFrom ==
    /\ ret = None
    /\ history' = HistoryFrom(Unwrap(arg))
    /\ ret' = Some([panicked |-> SanityCheckPanics(HistoryFrom(Unwrap(arg)))])
    /\ UNCHANGED <<db, upload, upload_in_progress, now, tasks, requests,
                   sync_request, instructions, arg, configVars, clientVars>>

\* InMemoryFileHistory::from applied to one event list
SpecFrom == FromInit /\ [][CallHistoryFrom]_vars

\* the events handed to add: change and delete events of two watch groups
\* and two paths
AddEvents ==
    {FileEvent(t, p, 1, ChangeEvent, wg) :
        t \in 0..MaxMillis, p \in SyncPaths, wg \in TwoWatchGroups}
    \cup {FileEvent(t, p, 0, DeleteEvent, wg) :
        t \in 0..MaxMillis, p \in SyncPaths, wg \in TwoWatchGroups}

\* history.add(event); arg keeps the events in the order of the calls
CallAdd(event) ==
    /\ Len(arg) < MaxEvents
    /\ history' = HistoryAdd(history, event)
    /\ arg' = Append(arg, event)
    /\ UNCHANGED <<db, upload, upload_in_progress, now, tasks, requests,
                   sync_request, instructions, ret, configVars, clientVars>>

AddsNext == \E event \in AddEvents : CallAdd(event)

\* up to MaxEvents add calls on an empty history, in any order
SpecAdds == Init /\ [][AddsNext]_vars

(***************************************************************************)
(* The CSV migration: FileEventRepository::bulk_insert                     *)
(***************************************************************************)
\* bulk_insert: one INSERT for each (event, client_id) in the order of the
\* vector; the `?` after execute(..).await returns the first error, and the
\* rows inserted before it stay (there is no transaction). sql_oks[i] says
\* whether the INSERT of the i-th element succeeds. The result is
\* Ok(count) or Err.
RECURSIVE bulk_insert(_, _, _)
bulk_insert(rows, events, sql_oks) ==
    IF events = <<>> THEN [rows |-> rows, result |-> Some(0)]
    ELSE IF ~Head(sql_oks) THEN [rows |-> rows, result |-> None]
    ELSE LET rest == bulk_insert(
                         InsertRow(rows, Head(events).event, Head(events).client_id, TRUE),
                         Tail(events), Tail(sql_oks))
         IN [rows |-> rest.rows,
             result |-> IF IsSome(rest.result)
                        THEN Some(Unwrap(rest.result) + 1) ELSE None]

\* the events of history.csv with the client ids the migration maps them to
MigratedEvents ==
    {[event |-> FileEvent(t, p, 1, ChangeEvent, 1), client_id |-> "c1"] :
        t \in 0..MaxMillis, p \in SyncPaths}

\* batches of different events, with the outcome of each INSERT
MigrationBatches ==
    UNION {{[events |-> b, sql_oks |-> oks] :
                b \in {c \in [1..n -> MigratedEvents] :
                          \A i, j \in 1..n : i /= j => c[i] /= c[j]},
                oks \in [1..n -> BOOLEAN]} : n \in 0..MaxEvents}

MigrateInit ==
    /\ ServerInit
    /\ SyncIdle
    /\ arg \in {Some(batch) : batch \in MigrationBatches}
    /\ ret = None

\* migrate_csv_history_to_db, the call of bulk_insert: history.csv is
\* renamed when the result is Ok
CallBulkInsert ==
    /\ ret = None
    /\ LET r == bulk_insert(db, Unwrap(arg).events, Unwrap(arg).sql_oks)
       IN /\ db' = r.rows
          /\ ret' = Some([result |-> r.result, renamed |-> IsSome(r.result)])
    /\ UNCHANGED <<history, upload, upload_in_progress, now, tasks, requests,
                   sync_request, instructions, arg, configVars, clientVars>>

\* bulk_insert applied to one batch on an empty table
SpecMigrate == MigrateInit /\ [][CallBulkInsert]_vars

(***************************************************************************)
(* Boot: server/src/main.rs, main                                          *)
(***************************************************************************)
\* UPLOAD_PATH, UPLOAD_TMP_PATH, BACKUP_PATH in the order main lists them
RequiredDirs == <<"upload", "upload_in_progress", "backup">>

\* create_all_paths_if_not_exist: for each path that does not exist
\* create_dir_all(path)?; state[d] is "present", "absent" (create_dir_all
\* creates it) or "blocked" (create_dir_all fails). The directories after
\* the call and whether it returned Ok.
RECURSIVE create_all_paths_if_not_exist(_, _)
create_all_paths_if_not_exist(state, paths) ==
    IF paths = <<>> THEN [state |-> state, ok |-> TRUE]
    ELSE IF state[Head(paths)] = "blocked" THEN [state |-> state, ok |-> FALSE]
    ELSE create_all_paths_if_not_exist(
             [state EXCEPT ![Head(paths)] = "present"], Tail(paths))

\* what the process finds at boot: the required directories, and whether
\* the database opens and migrates, the stored events pass sanity_check,
\* the monitor writer can be built and the listener binds
BootEnvironments ==
    [dirs : [Range(RequiredDirs) -> {"present", "absent", "blocked"}],
     db_ok : BOOLEAN, history_ok : BOOLEAN, writer_ok : BOOLEAN, bind_ok : BOOLEAN]

\* main has spawned the task that creates the directories and is about to
\* open the database
BootInit ==
    /\ ServerInit
    /\ SyncIdle
    /\ arg \in {Some(e) : e \in BootEnvironments}
    /\ ret = Some([pc |-> "db", spawned |-> "pending", dirs |-> Unwrap(arg).dirs,
                   exit |-> None, serving |-> FALSE])

\* one step of the boot: the boot record changes, nothing else does
BootStep(new) ==
    /\ Unwrap(ret).exit = None
    /\ ret' = Some(new)
    /\ UNCHANGED <<history, db, upload, upload_in_progress, now, tasks, requests,
                   sync_request, instructions, arg, configVars, clientVars>>

\* the task of tokio::spawn(async { create_all_paths_if_not_exist(..)?; .. }):
\* it runs beside main, and its JoinHandle and with it its Result is dropped
CreateRequiredDirs ==
    /\ Unwrap(ret).spawned = "pending"
    /\ LET r == create_all_paths_if_not_exist(Unwrap(ret).dirs, RequiredDirs)
       IN BootStep([Unwrap(ret) EXCEPT !.dirs = r.state,
                                       !.spawned = IF r.ok THEN "ok" ELSE "err"])

\* SqlitePool::connect_with(opts).await? and MIGRATOR.run(&pool).await?:
\* an error is returned from main (exit status 1)
OpenDatabase ==
    /\ Unwrap(ret).pc = "db"
    /\ BootStep(IF Unwrap(arg).db_ok
                THEN [Unwrap(ret) EXCEPT !.pc = "history"]
                ELSE [Unwrap(ret) EXCEPT !.pc = "exited", !.exit = Some(1)])

\* migrate_csv_history_to_db, which returns in every case, and
\* InMemoryFileHistory::from(events), whose sanity_check may panic
LoadHistory ==
    /\ Unwrap(ret).pc = "history"
    /\ BootStep(IF Unwrap(arg).history_ok
                THEN [Unwrap(ret) EXCEPT !.pc = "monitor"]
                ELSE [Unwrap(ret) EXCEPT !.pc = "exited", !.exit = Some(101)])

\* RotatingFileWriter::new(..).unwrap_or_else(|err| panic!(..)): a panic of
\* main ends the process with status 101
NewMonitorWriter ==
    /\ Unwrap(ret).pc = "monitor"
    /\ BootStep(IF Unwrap(arg).writer_ok
                THEN [Unwrap(ret) EXCEPT !.pc = "bind"]
                ELSE [Unwrap(ret) EXCEPT !.pc = "exited", !.exit = Some(101)])

\* TcpListener::bind(addr).await.unwrap() and axum::serve
BindAndServe ==
    /\ Unwrap(ret).pc = "bind"
    /\ BootStep(IF Unwrap(arg).bind_ok
                THEN [Unwrap(ret) EXCEPT !.pc = "serving", !.serving = TRUE]
                ELSE [Unwrap(ret) EXCEPT !.pc = "exited", !.exit = Some(101)])

BootNext ==
    \/ CreateRequiredDirs
    \/ OpenDatabase
    \/ LoadHistory
    \/ NewMonitorWriter
    \/ BindAndServe

\* one boot of the server in each environment
SpecBoot == BootInit /\ [][BootNext]_vars

(***************************************************************************)
(* The directory scan: shared/src/get_files_of_directory.rs                *)
(***************************************************************************)
\* str::contains
Contains(hay, needle) ==
    \E i \in 0..(Len(hay) - Len(needle)) : SubSeq(hay, i + 1, i + Len(needle)) = needle

\* str::to_lowercase, for the letters of the modelled names
to_lowercase(name) ==
    [i \in DOMAIN name |->
        IF name[i] = "D" THEN "d" ELSE IF name[i] = "S" THEN "s" ELSE name[i]]

\* the name the scan leaves out on every platform
DsStore == <<".", "d", "s", "_", "s", "t", "o", "r", "e">>

\* entry.path(): the scanned root joined with the names below it
RECURSIVE EntryPath(_, _)
EntryPath(root, names) ==
    IF names = <<>> THEN root
    ELSE EntryPath(root \o <<"/">> \o Head(names), Tail(names))

\* the exclusion by the last name of the entry alone
Excluded_ByName(entry_path, exclude_dirs) ==
    Last(Split(entry_path, "/")) \in exclude_dirs

\* exclude_dirs.iter().any(|excl| entry_path.to_string_lossy().contains(excl))
Excluded(entry_path, exclude_dirs) ==
    \E excl \in exclude_dirs : Contains(entry_path, excl)

\* fs::read_dir(current_path): the entries of the directory, in the order
\* the platform yields them (order lists every name once)
ReadDir(files, current_path, order) ==
    LET below == {SubSeq(f, 1, Len(current_path) + 1) :
                     f \in {g \in files : /\ Len(g) > Len(current_path)
                                         /\ SubSeq(g, 1, Len(current_path)) = current_path}}
        names == SelectSeq(order, LAMBDA n : Append(current_path, n) \in below)
    IN [i \in DOMAIN names |-> Append(current_path, names[i])]

\* inner_get_files_of_dir_rec as a loop over the entries still to visit:
\* an entry is skipped for its leading '.', for an exclude_dirs string in
\* its path, or as a file named .ds_store in any case; a file is described,
\* a directory is entered before the entries that follow it
RECURSIVE inner_get_files_of_dir_rec(_, _, _, _, _, _)
inner_get_files_of_dir_rec(files, entries, root, order, exclude_dirs, exclude_dot_dirs) ==
    IF entries = <<>> THEN <<>>
    ELSE LET entry == Head(entries)
             entry_name == Last(entry)
             rest == Tail(entries)
             relative_path == FromPath(EntryPath(<<".">>, entry)).path
         IN IF exclude_dot_dirs /\ entry_name /= <<>> /\ Head(entry_name) = "."
            THEN inner_get_files_of_dir_rec(files, rest, root, order,
                                            exclude_dirs, exclude_dot_dirs)
            ELSE IF Excluded(EntryPath(root, entry), exclude_dirs)
            THEN inner_get_files_of_dir_rec(files, rest, root, order,
                                            exclude_dirs, exclude_dot_dirs)
            ELSE IF entry \in files
            THEN (IF to_lowercase(entry_name) = DsStore THEN <<>>
                  ELSE <<FileDescription(relative_path, 1, 0)>>)
                 \o inner_get_files_of_dir_rec(files, rest, root, order,
                                               exclude_dirs, exclude_dot_dirs)
            ELSE inner_get_files_of_dir_rec(files, ReadDir(files, entry, order) \o rest,
                                            root, order, exclude_dirs, exclude_dot_dirs)

\* get_all_file_descriptions(path, exclude_dirs, exclude_dot_dirs) on a
\* directory whose entries can all be read
ScanDirectory(files, root, order, exclude_dirs, exclude_dot_dirs) ==
    inner_get_files_of_dir_rec(files, ReadDir(files, <<>>, order), root, order,
                               exclude_dirs, exclude_dot_dirs)

\* the names of the scanned trees: k, .h, nk, .DS_Store, d, .o, n
ScanNames ==
    << <<"k">>, <<".", "h">>, <<"n", "k">>,
       <<".", "D", "S", "_", "S", "t", "o", "r", "e">>,
       <<"d">>, <<".", "o">>, <<"n">> >>

\* the files a scanned tree may hold
ScanFiles ==
    {<<ScanNames[1]>>, <<ScanNames[2]>>, <<ScanNames[3]>>, <<ScanNames[4]>>,
     <<ScanNames[5], ScanNames[1]>>, <<ScanNames[5], ScanNames[2]>>,
     <<ScanNames[5], ScanNames[4]>>, <<ScanNames[6], ScanNames[1]>>,
     <<ScanNames[7], ScanNames[1]>>,
     <<ScanNames[5], ScanNames[7], ScanNames[1]>>}

\* exclude_dirs: none, "n", "d/k", and "n" with "o"
ExcludeSets == {{}, {<<"n">>}, {<<"d", "/", "k">>}, {<<"n">>, <<"o">>}}

\* the scanned roots: "r" and "rn"
ScanRoots == {<<"r">>, <<"r", "n">>}

ScanOrders == {ScanNames, [i \in DOMAIN ScanNames |-> ScanNames[Len(ScanNames) + 1 - i]]}

ScanInit ==
    /\ ServerInit
    /\ SyncIdle
    /\ arg \in {Some(a) : a \in [files : SUBSET ScanFiles, root : ScanRoots,
                                  order : ScanOrders, exclude_dirs : ExcludeSets,
                                  exclude_dot_dirs : BOOLEAN]}
    /\ ret = None

CallScan ==
    /\ ret = None
    /\ LET a == Unwrap(arg)
       IN ret' = Some(ScanDirectory(a.files, a.root, a.order, a.exclude_dirs,
                                    a.exclude_dot_dirs))
    /\ UNCHANGED <<history, db, upload, upload_in_progress, now, tasks, requests,
                   sync_request, instructions, arg, configVars, clientVars>>

\* get_all_file_descriptions applied to one tree
SpecScan == ScanInit /\ [][CallScan]_vars

\* ---------------------------------------------------------------------
\* Rotating file writer (write/rotating.rs)
\* ---------------------------------------------------------------------
\* A file name is [prefix, stamp]: "{prefix}_{stamp}.csv". A directory is a
\* function from the names of its files to [size, lines]: the bytes of the
\* file and the number of lines written to it by write_line.

\* Local::now().format("%Y-%m-%dT%H-%M-%S"): the clock is read in half
\* seconds, the format keeps the whole seconds
FormatTimestamp(clock) == clock \div 2

\* the order of two file names with the writer's prefix: the stamps are of
\* one width, so the strings compare as the stamps do
NameBefore(a, b) == a.stamp < b.stamp

\* list_existing_files: the names that start with the prefix (and end with
\* ".csv"), sorted by file name
RECURSIVE SortedNames(_)
SortedNames(names) ==
    IF names = {} THEN <<>>
    ELSE LET first == CHOOSE n \in names : \A m \in names : ~NameBefore(m, n)
         IN <<first>> \o SortedNames(names \ {first})

list_existing_files(w, dir) ==
    SortedNames({n \in DOMAIN dir : n.prefix = w.prefix})

\* prune_old_files: removes the oldest files until max_files - 1 are left
prune_old_files(w, dir) ==
    LET files == list_existing_files(w, dir)
        files_to_delete == IF Len(files) > w.max_files - 1
                           THEN Len(files) - (w.max_files - 1) ELSE 0
        deleted == {files[i] : i \in 1..files_to_delete}
    IN [n \in DOMAIN dir \ deleted |-> dir[n]]

\* create_new_file: prunes, then File::create on "{prefix}_{timestamp}.csv"
\* (a file of that name is truncated) and writes the headers
create_new_file(w, dir, clock) ==
    LET pruned == prune_old_files(w, dir)
        path == [prefix |-> w.prefix, stamp |-> FormatTimestamp(clock)]
        initial_size == IF IsSome(w.headers) THEN Unwrap(w.headers) + 1 ELSE 0
    IN [dir |-> [n \in DOMAIN pruned \cup {path} |->
                    IF n = path THEN [size |-> initial_size, lines |-> 0]
                    ELSE pruned[n]],
        writer |-> [w EXCEPT !.current_file_path = Some(path),
                             !.current_size = initial_size],
        created |-> Some(path)]

\* resume_or_create: appends to the newest file while it is under the size
\* limit, else creates a new file
resume_or_create(w, dir, clock) ==
    LET files == list_existing_files(w, dir)
        newest == files[Len(files)]
    IN IF files /= <<>> /\ dir[newest].size < w.max_size_bytes
       THEN [dir |-> dir,
             writer |-> [w EXCEPT !.current_file_path = Some(newest),
                                  !.current_size = dir[newest].size],
             created |-> None]
       ELSE create_new_file(w, dir, clock)

\* RotatingFileWriter::new
NewWriter(cfg, dir, clock) ==
    resume_or_create([prefix |-> cfg.prefix, max_size_bytes |-> cfg.max_size_bytes,
                      max_files |-> cfg.max_files, headers |-> cfg.headers,
                      current_file_path |-> None, current_size |-> 0],
                     dir, clock)

\* rotate: closes the current file and creates a new one
rotate(w, dir, clock) ==
    create_new_file([w EXCEPT !.current_file_path = None, !.current_size = 0],
                    dir, clock)

\* write_line: rotates when the line does not fit, then appends the line
\* and its newline to the current file
write_line(w, dir, line, clock) ==
    LET line_size == line + 1
        r == IF w.current_size + line_size > w.max_size_bytes
             THEN rotate(w, dir, clock)
             ELSE [dir |-> dir, writer |-> w, created |-> None]
        path == Unwrap(r.writer.current_file_path)
    IN [dir |-> [r.dir EXCEPT ![path] = [size |-> @.size + line_size,
                                         lines |-> @.lines + 1]],
        writer |-> [r.writer EXCEPT !.current_size = @ + line_size],
        created |-> r.created]

\* the arguments of RotatingFileWriter::new; headers is the length of the
\* header line
WriterConfigs ==
    [prefix : {"monitor"}, max_size_bytes : {3, 5}, max_files : {1, 2},
     headers : {None, Some(1)}]

\* what the directory holds before the first writer: nothing, or a file of
\* another prefix
WriterDirs ==
    { <<>>,
      [n \in {[prefix |-> "other", stamp |-> 0]} |-> [size |-> 1, lines |-> 1]] }

\* the lengths of the lines handed to write_line
LineLengths == {1, 2}

\* ret is the writer and its directory: the clock, the names prune_old_files
\* has removed, what the last call created and the number of write_line calls
WriterInit ==
    /\ ServerInit
    /\ SyncIdle
    /\ arg \in {Some(c) : c \in WriterConfigs}
    /\ ret \in {Some([dir |-> d, writer |-> None, clock |-> 0, removed |-> {},
                      created |-> None, writes |-> 0]) : d \in WriterDirs}

WriterStep(new) ==
    /\ ret' = Some(new)
    /\ UNCHANGED <<history, db, upload, upload_in_progress, now, tasks, requests,
                   sync_request, instructions, arg, configVars, clientVars>>

\* the names prune_old_files removed in a call that created a file
PrunedNames(r, dir) ==
    IF IsSome(r.created) THEN DOMAIN dir \ DOMAIN prune_old_files(r.writer, dir) ELSE {}

\* main: RotatingFileWriter::new at boot, and again at every restart of the
\* server on the directory the last run left
CallNew ==
    LET st == Unwrap(ret)
        r == NewWriter(Unwrap(arg), st.dir, st.clock)
    IN WriterStep([st EXCEPT !.dir = r.dir, !.writer = Some(r.writer),
                             !.created = r.created,
                             !.removed = @ \cup PrunedNames(r, st.dir)])

\* monitor_sys: writer.lock().unwrap().write_line(&csv_line)
CallWriteLine(line) ==
    LET st == Unwrap(ret)
        w == Unwrap(st.writer)
        r == write_line(w, st.dir, line, st.clock)
    IN /\ IsSome(st.writer)
       /\ st.writes < MaxEvents
       /\ WriterStep([st EXCEPT !.dir = r.dir, !.writer = Some(r.writer),
                                !.created = r.created, !.writes = @ + 1,
                                !.removed = @ \cup PrunedNames(r, st.dir)])

\* the wall clock goes on by half a second
WriterTick ==
    LET st == Unwrap(ret)
    IN /\ st.clock < MaxMillis
       /\ WriterStep([st EXCEPT !.clock = @ + 1])

WriterNext ==
    \/ CallNew
    \/ \E line \in LineLengths : CallWriteLine(line)
    \/ WriterTick

\* one RotatingFileWriter over its directory
SpecWriter == WriterInit /\ [][WriterNext]_vars

(***************************************************************************)
(* Client configuration: db/client_repository.rs, handler/config           *)
(***************************************************************************)
\* the tables as rows: client is keyed by its primary key id, the other
\* two are kept in insertion order
MaxRowId(d) ==
    LET ids == {d.client_watch_group[i].id : i \in DOMAIN d.client_watch_group}
    IN IF ids = {} THEN 0 ELSE CHOOSE m \in ids : \A i \in ids : i <= m

\* INSERT INTO client ... ON CONFLICT(id) DO UPDATE SET host_name, min_poll_interval_in_ms
UpsertClient(d, client_id, host_name, poll_interval) ==
    [d EXCEPT !.client =
        [c \in DOMAIN d.client \cup {client_id} |->
            IF c = client_id
            THEN [host_name |-> host_name, min_poll_interval_in_ms |-> poll_interval]
            ELSE d.client[c]]]

\* a delete that removes nothing
DeleteWatchGroups_Keep(d, client_id) == d

\* DELETE FROM client_watch_group WHERE client_id = ?, cascading to the
\* excluded dirs of the deleted rows
DeleteWatchGroups(d, client_id) ==
    LET gone == {d.client_watch_group[i].id : i \in
                    {j \in DOMAIN d.client_watch_group :
                        d.client_watch_group[j].client_id = client_id}}
    IN [d EXCEPT
          !.client_watch_group = SelectSeq(@, LAMBDA r : r.client_id /= client_id),
          !.excluded_dir = SelectSeq(@, LAMBDA r : r.client_watch_group \notin gone)]

\* INSERT INTO client_watch_group ... RETURNING id
InsertWatchGroup(d, client_id, server_wg_id, wg) ==
    [d EXCEPT !.client_watch_group = Append(@,
        [id |-> MaxRowId(d) + 1, client_id |-> client_id,
         path_to_monitor |-> wg.path_to_monitor,
         exclude_dot_dirs |-> wg.exclude_dot_dirs,
         server_watch_group_id |-> server_wg_id])]

\* INSERT INTO client_watch_group_excluded_dir
InsertExcludedDir(d, watch_group_id, exclude_dir) ==
    [d EXCEPT !.excluded_dir = Append(@,
        [client_watch_group |-> watch_group_id, exclude_dir |-> exclude_dir])]

\* SELECT min_poll_interval_in_ms FROM client WHERE id = ?
SelectClient(d, client_id) ==
    IF client_id \in DOMAIN d.client
    THEN Some(d.client[client_id].min_poll_interval_in_ms)
    ELSE None

\* the watch groups of a client with their excluded dirs, as wg_map: a
\* later row replaces an earlier one of the same server watch group
SelectWatchGroups(d, client_id) ==
    LET rows == SelectSeq(d.client_watch_group, LAMBDA r : r.client_id = client_id)
        keys == {rows[i].server_watch_group_id : i \in DOMAIN rows}
        last(k) == CHOOSE i \in DOMAIN rows :
                      /\ rows[i].server_watch_group_id = k
                      /\ \A j \in DOMAIN rows :
                            rows[j].server_watch_group_id = k => j <= i
        dirs(id) == SelectSeq(d.excluded_dir, LAMBDA r : r.client_watch_group = id)
    IN [k \in keys |->
          [path_to_monitor |-> rows[last(k)].path_to_monitor,
           exclude_dirs |-> [i \in DOMAIN dirs(rows[last(k)].id) |->
                               dirs(rows[last(k)].id)[i].exclude_dir],
           exclude_dot_dirs |-> rows[last(k)].exclude_dot_dirs]]

\* get_client_config on one snapshot of the tables
get_client_config(d, client_id) ==
    IF SelectClient(d, client_id) = None THEN None
    ELSE Some([min_poll_interval_in_ms |-> Unwrap(SelectClient(d, client_id)),
               watch_groups |-> SelectWatchGroups(d, client_id)])

\* what the database holds after a transaction ends without a commit
\* (the Transaction is dropped by the ? operator) : the committed tables
Rollback_Autocommit(committed, work) == work
Rollback(committed, work) == committed

ConfigClients == {"c1", "c2"}
HostNames == {"h1", "h2"}

WatchGroupConfigs ==
    {[path_to_monitor |-> "p", exclude_dirs |-> <<>>, exclude_dot_dirs |-> TRUE],
     [path_to_monitor |-> "q", exclude_dirs |-> <<"x", "y">>, exclude_dot_dirs |-> FALSE]}

\* the configs a client posts: none, one or two watch groups
WatchConfigs ==
    {DefaultWatchConfig}
    \cup {[min_poll_interval_in_ms |-> 100, watch_groups |-> [k \in {1} |-> wg]] :
            wg \in WatchGroupConfigs}
    \cup {[min_poll_interval_in_ms |-> 200,
           watch_groups |-> [k \in {1, 2} |->
              IF k = 1
              THEN [path_to_monitor |-> "q", exclude_dirs |-> <<"x", "y">>,
                    exclude_dot_dirs |-> FALSE]
              ELSE [path_to_monitor |-> "p", exclude_dirs |-> <<"z">>,
                    exclude_dot_dirs |-> TRUE]]]}

\* the headers X-Client-Id and X-Client-Hostname, each possibly missing
ConfigHeaders ==
    [client_id : {None} \cup {Some(c) : c \in ConfigClients},
     host_name : {None} \cup {Some(h) : h \in HostNames}]

DbError == "database error"

ConfigDone(t, status, body, json) ==
    [IdleConfigTask EXCEPT !.kind = t.kind, !.pc = "done",
                           !.client_id = t.client_id, !.host_name = t.host_name,
                           !.config = t.config,
                           !.status = status, !.body = body, !.json = json]

ConfigFree(s) == config_tasks[s].pc \in {"idle", "done"}

nonConfigVars == <<history, db, upload, upload_in_progress, now, tasks,
                   sync_request, instructions, arg, ret, clientVars>>

\* get_config of handler/config/sys.rs up to its first await: the headers
GetConfigStart(s, headers) ==
    /\ ConfigFree(s)
    /\ requests < MaxRequests
    /\ requests' = requests + 1
    /\ LET t == [IdleConfigTask EXCEPT !.kind = "get_config"]
       IN config_tasks' = [config_tasks EXCEPT ![s] =
            IF headers.client_id = None
            THEN ConfigDone(t, BAD_REQUEST, "Missing X-Client-Id header", None)
            ELSE IF headers.host_name = None
            THEN ConfigDone(t, BAD_REQUEST, "Missing X-Client-Hostname header", None)
            ELSE [t EXCEPT !.pc = "get_client",
                           !.client_id = Unwrap(headers.client_id),
                           !.host_name = Unwrap(headers.host_name)]]
    /\ UNCHANGED <<config_db, nonConfigVars>>

\* post_config of handler/config/client.rs up to the call of upsert_client_config
PostConfigStart(s, headers, request) ==
    /\ ConfigFree(s)
    /\ requests < MaxRequests
    /\ requests' = requests + 1
    /\ LET t == [IdleConfigTask EXCEPT !.kind = "post_config"]
       IN config_tasks' = [config_tasks EXCEPT ![s] =
            IF headers.client_id = None
            THEN ConfigDone(t, BAD_REQUEST, "Missing X-Client-Id header", None)
            ELSE IF headers.host_name = None
            THEN ConfigDone(t, BAD_REQUEST, "Missing X-Client-Hostname header", None)
            ELSE [t EXCEPT !.pc = "upsert_client",
                           !.client_id = Unwrap(headers.client_id),
                           !.host_name = Unwrap(headers.host_name),
                           !.config = request]]
    /\ UNCHANGED <<config_db, nonConfigVars>>

\* get_client_config, its first query; Ok(None) makes get_config call
\* upsert_client_config with the default config
GetClient(s) ==
    /\ config_tasks[s].pc = "get_client"
    /\ LET t == config_tasks[s]
           client == SelectClient(config_db, t.client_id)
       IN \E sql_ok \in BOOLEAN :
            config_tasks' = [config_tasks EXCEPT ![s] =
                IF ~sql_ok
                THEN ConfigDone(t, INTERNAL_SERVER_ERROR, DbError, None)
                ELSE IF client = None
                THEN [t EXCEPT !.pc = "upsert_client", !.config = DefaultWatchConfig]
                ELSE [t EXCEPT !.pc = "get_watch_groups", !.client = client]]
    /\ UNCHANGED <<config_db, requests, nonConfigVars>>

\* get_client_config, its queries for the watch groups and their excluded
\* dirs, and the response of get_config
GetWatchGroups(s) ==
    /\ config_tasks[s].pc = "get_watch_groups"
    /\ LET t == config_tasks[s]
       IN \E sql_ok \in BOOLEAN :
            config_tasks' = [config_tasks EXCEPT ![s] =
                IF ~sql_ok
                THEN ConfigDone(t, INTERNAL_SERVER_ERROR, DbError, None)
                ELSE ConfigDone(t, OK, "",
                        Some([min_poll_interval_in_ms |-> Unwrap(t.client),
                              watch_groups |->
                                 SelectWatchGroups(config_db, t.client_id)]))]
    /\ UNCHANGED <<config_db, requests, nonConfigVars>>

\* a transaction that has written holds the database's write lock
WriteLocked(s) ==
    \E o \in Slots \ {s} :
        config_tasks[o].pc \in
            {"delete_watch_groups", "insert_watch_groups", "insert_excluded_dirs"}

\* a statement failed: ? returns the error, the transaction is dropped
TxFailed(s, work) ==
    /\ config_tasks' = [config_tasks EXCEPT ![s] =
          ConfigDone(config_tasks[s], INTERNAL_SERVER_ERROR, DbError, None)]
    /\ config_db' = Rollback(config_db, work)

\* upsert_client_config: begin and the upsert of the client row
TxUpsertClient(s) ==
    /\ config_tasks[s].pc = "upsert_client"
    /\ LET t == config_tasks[s]
       IN \E sql_ok \in BOOLEAN :
            IF sql_ok /\ ~WriteLocked(s)
            THEN /\ config_tasks' = [config_tasks EXCEPT ![s] =
                      [t EXCEPT !.pc = "delete_watch_groups",
                                !.work = UpsertClient(config_db, t.client_id,
                                    t.host_name, t.config.min_poll_interval_in_ms)]]
                 /\ config_db' = config_db
            ELSE TxFailed(s, config_db)
    /\ UNCHANGED <<requests, nonConfigVars>>

\* upsert_client_config: the delete of the client's watch groups
TxDeleteWatchGroups(s) ==
    /\ config_tasks[s].pc = "delete_watch_groups"
    /\ LET t == config_tasks[s]
       IN \E sql_ok \in BOOLEAN :
            IF sql_ok
            THEN /\ config_tasks' = [config_tasks EXCEPT ![s] =
                      [t EXCEPT !.pc = "insert_watch_groups",
                                !.work = DeleteWatchGroups(t.work, t.client_id),
                                !.todo = DOMAIN t.config.watch_groups]]
                 /\ config_db' = config_db
            ELSE TxFailed(s, t.work)
    /\ UNCHANGED <<requests, nonConfigVars>>

\* upsert_client_config: the insert of the next watch group, in the
\* order the HashMap yields them
TxInsertWatchGroup(s) ==
    /\ config_tasks[s].pc = "insert_watch_groups"
    /\ config_tasks[s].todo /= {}
    /\ LET t == config_tasks[s]
       IN \E server_wg_id \in t.todo, sql_ok \in BOOLEAN :
            LET wg == t.config.watch_groups[server_wg_id]
            IN IF sql_ok
               THEN /\ config_tasks' = [config_tasks EXCEPT ![s] =
                         [t EXCEPT !.pc = IF wg.exclude_dirs = <<>>
                                          THEN "insert_watch_groups"
                                          ELSE "insert_excluded_dirs",
                                   !.work = InsertWatchGroup(t.work, t.client_id,
                                                             server_wg_id, wg),
                                   !.todo = t.todo \ {server_wg_id},
                                   !.watch_group_id = MaxRowId(t.work) + 1,
                                   !.dirs = wg.exclude_dirs]]
                    /\ config_db' = config_db
               ELSE TxFailed(s, t.work)
    /\ UNCHANGED <<requests, nonConfigVars>>

\* upsert_client_config: the insert of the group's next excluded dir
TxInsertExcludedDir(s) ==
    /\ config_tasks[s].pc = "insert_excluded_dirs"
    /\ LET t == config_tasks[s]
       IN \E sql_ok \in BOOLEAN :
            IF sql_ok
            THEN /\ config_tasks' = [config_tasks EXCEPT ![s] =
                      [t EXCEPT !.pc = IF Tail(t.dirs) = <<>>
                                       THEN "insert_watch_groups"
                                       ELSE "insert_excluded_dirs",
                                !.work = InsertExcludedDir(t.work, t.watch_group_id,
                                                           Head(t.dirs)),
                                !.dirs = Tail(t.dirs)]]
                 /\ config_db' = config_db
            ELSE TxFailed(s, t.work)
    /\ UNCHANGED <<requests, nonConfigVars>>

\* upsert_client_config: commit, and the response of its caller
TxCommit(s) ==
    /\ config_tasks[s].pc = "insert_watch_groups"
    /\ config_tasks[s].todo = {}
    /\ LET t == config_tasks[s]
       IN \E sql_ok \in BOOLEAN :
            IF sql_ok
            THEN /\ config_tasks' = [config_tasks EXCEPT ![s] =
                      IF t.kind = "get_config"
                      THEN ConfigDone(t, OK, "", Some(t.config))
                      ELSE ConfigDone(t, OK, "Client registered successfully", None)]
                 /\ config_db' = t.work
            ELSE TxFailed(s, t.work)
    /\ UNCHANGED <<requests, nonConfigVars>>

ConfigNext ==
    \E s \in Slots :
        \/ \E headers \in ConfigHeaders : GetConfigStart(s, headers)
        \/ \E headers \in ConfigHeaders, request \in WatchConfigs :
              PostConfigStart(s, headers, request)
        \/ GetClient(s)
        \/ GetWatchGroups(s)
        \/ TxUpsertClient(s)
        \/ TxDeleteWatchGroups(s)
        \/ TxInsertWatchGroup(s)
        \/ TxInsertExcludedDir(s)
        \/ TxCommit(s)

\* MaxRequests config requests, processed concurrently by MaxInFlight tasks
SpecConfig == Init /\ [][ConfigNext]_vars

\* the INSERTs of update_single_watch_group's `for exclude_dir in exclude_dirs`
RECURSIVE InsertExcludedDirs(_, _, _)
InsertExcludedDirs(d, watch_group_id, exclude_dirs) ==
    IF exclude_dirs = <<>> THEN d
    ELSE InsertExcludedDirs(InsertExcludedDir(d, watch_group_id, Head(exclude_dirs)),
                            watch_group_id, Tail(exclude_dirs))

\* ClientRepository::update_single_watch_group in one transaction: UPDATE
\* client (no row: Ok(false)), DELETE FROM client_watch_group WHERE
\* client_id = ?, INSERT of the one binding, INSERT of its excluded dirs,
\* commit. failing is the number of the statement that returns an error
\* (0: none); a transaction that does not commit is rolled back.
update_single_watch_group(d, client_id, server_watch_group_id, wg, interval, failing) ==
    IF failing = 1 THEN [db |-> Rollback(d, d), result |-> None]
    ELSE IF client_id \notin DOMAIN d.client
    THEN [db |-> Rollback(d, d), result |-> Some(FALSE)]
    ELSE LET updated == [d EXCEPT !.client[client_id].min_poll_interval_in_ms = interval]
             deleted == DeleteWatchGroups(updated, client_id)
             inserted == InsertWatchGroup(deleted, client_id, server_watch_group_id, wg)
             with_dirs == InsertExcludedDirs(inserted, MaxRowId(deleted) + 1,
                                             wg.exclude_dirs)
         IN IF failing \in 2..5
            THEN [db |-> Rollback(d, with_dirs), result |-> None]
            ELSE [db |-> with_dirs, result |-> Some(TRUE)]

\* api_update_config, PUT /api/config/{id}: 200, 404 for Ok(false), 500
ApiUpdateConfig(s, id, update, failing) ==
    /\ \A o \in Slots : ConfigFree(o)
    /\ requests < MaxRequests
    /\ requests' = requests + 1
    /\ LET r == update_single_watch_group(config_db, id, update.server_watch_group_id,
                                          update.wg, update.min_poll_interval_in_ms,
                                          failing)
           t == [IdleConfigTask EXCEPT !.kind = "api_update_config", !.client_id = id,
                                       !.watch_group_id = update.server_watch_group_id]
       IN /\ config_db' = r.db
          /\ config_tasks' = [config_tasks EXCEPT ![s] =
                [ConfigDone(t, IF r.result = None THEN INTERNAL_SERVER_ERROR
                               ELSE IF Unwrap(r.result) THEN OK ELSE NOT_FOUND,
                            IF r.result = None THEN DbError
                            ELSE IF Unwrap(r.result) THEN "Config updated successfully"
                            ELSE "Client not found", None)
                 EXCEPT !.watch_group_id = update.server_watch_group_id]]
    /\ UNCHANGED nonConfigVars

\* AdminConfigUpdateDto: one watch group and the poll interval
AdminUpdates ==
    [server_watch_group_id : {1, 2}, wg : WatchGroupConfigs,
     min_poll_interval_in_ms : {100, 300}]

\* the clients post their configs and the admin UI updates single watch
\* groups, one request at a time
AdminNext ==
    \/ (\A o \in Slots : ConfigFree(o))
         /\ \E headers \in ConfigHeaders, request \in WatchConfigs :
               PostConfigStart(1, headers, request)
    \/ TxUpsertClient(1)
    \/ TxDeleteWatchGroups(1)
    \/ TxInsertWatchGroup(1)
    \/ TxInsertExcludedDir(1)
    \/ TxCommit(1)
    \/ \E id \in ConfigClients, update \in AdminUpdates, failing \in 0..5 :
          ApiUpdateConfig(1, id, update, failing)

SpecAdmin == Init /\ [][AdminNext]_vars

\* download that removes the file it streams
download_Consuming(s, wg_id, payload) ==
    /\ Ended(tasks[s])
    /\ LET sub_path == FromSegments(payload).path
           p == upload_path_for_wg(wg_id) \o sub_path
           t == [IdleTask EXCEPT !.kind = "download", !.wg_id = wg_id, !.pc = "done"]
       IN /\ tasks' = [tasks EXCEPT ![s] =
                IF Exists(upload, p)
                THEN [t EXCEPT !.status = OK,
                               !.stream = IF IsFile(upload, p)
                                          THEN Some(upload[p].content) ELSE None]
                ELSE [t EXCEPT !.status = NOT_FOUND, !.body = "File not found"]]
          /\ upload' = IF IsFile(upload, p) THEN RemoveFile(upload, p) ELSE upload
    /\ UNCHANGED <<history, db, upload_in_progress, now,
                   sync_request, instructions, arg, ret, configVars, clientVars>>

\* download: the payload split at "/" names the file below the watch
\* group's directory; File::open decides between the stream and 404
download(s, wg_id, payload) ==
    /\ Ended(tasks[s])
    /\ LET sub_path == FromSegments(payload).path
           p == upload_path_for_wg(wg_id) \o sub_path
           t == [IdleTask EXCEPT !.kind = "download", !.wg_id = wg_id, !.pc = "done"]
       IN tasks' = [tasks EXCEPT ![s] =
             IF Exists(upload, p)
             THEN [t EXCEPT !.status = OK,
                            !.stream = IF IsFile(upload, p)
                                       THEN Some(upload[p].content) ELSE None]
             ELSE [t EXCEPT !.status = NOT_FOUND, !.body = "File not found"]]
    /\ UNCHANGED <<history, db, upload, upload_in_progress, now,
                   sync_request, instructions, arg, ret, configVars, clientVars>>

\* one of the MaxRequests requests is a download
DownloadStart(s, wg_id, payload) ==
    /\ requests < MaxRequests
    /\ requests' = requests + 1
    /\ download(s, wg_id, payload)

\* the client states of the sync requests among the other requests
ServerSnapshots ==
    {<<>>, <<FileDescription(<< <<"a">> >>, 1, 1)>>}

\* no request is being served
Quiet == NoneInFlight /\ \A s \in Slots : ConfigFree(s)

\* every route that reads or writes the history, the file_event rows, the
\* mirrored tree or the client tables, one request at a time
ServerNext ==
    \/ ConfigFree(1) /\ SeqNext
    \/ Quiet /\ \E wg_id \in WatchGroups, payload \in RawPaths :
                    DownloadStart(1, wg_id, payload)
    \/ Quiet /\ \E wg_id \in WatchGroups, client \in ServerSnapshots :
                    SyncHandler(wg_id, client)
    \/ Quiet /\ \E headers \in ConfigHeaders : GetConfigStart(1, headers)
    \/ GetClient(1)
    \/ GetWatchGroups(1)
    \/ TxUpsertClient(1)
    \/ TxDeleteWatchGroups(1)
    \/ TxCommit(1)

SpecServer == Init /\ [][ServerNext]_vars

(***************************************************************************)
(* The mutex of InMemoryFileHistory.store: the History calls of the        *)
(* handlers taken apart into store.lock() and the statements that run      *)
(* while the MutexGuard lives. tasks[s].guard says that task s holds it.   *)
(***************************************************************************)
\* a lock taken already before the awaited insert
AtHistoryCall_BeforeInsert(t) ==
    \/ t.kind = "upload" /\ t.pc \in {"parsed", "renamed"}
    \/ t.kind = "delete" /\ t.pc \in {"absent", "removed"}
    \/ t.kind = "sync" /\ t.pc = "parsed"

\* the statement task t is at is a call of a History method
AtHistoryCall(t) ==
    \/ t.kind = "upload" /\ t.pc \in {"parsed", "inserted"}
    \/ t.kind = "delete" /\ t.pc \in {"absent", "inserted"}
    \/ t.kind = "sync" /\ t.pc = "parsed"

\* self.store.lock().unwrap(): returns when no other task holds the guard
StoreLock(s) ==
    /\ AtHistoryCall(tasks[s])
    /\ \A r \in Slots : ~tasks[r].guard
    /\ tasks' = [tasks EXCEPT ![s].guard = TRUE]
    /\ UNCHANGED <<history, db, upload, upload_in_progress, now, requests,
                   sync_request, instructions, arg, ret, configVars, clientVars>>

\* upload_handler and process_upload up to the call of get_latest_event:
\* parse_multipart_request and ClientFileEvent::try_from
UploadParse(s, wg_id, client_id, body) ==
    /\ Ended(tasks[s])
    /\ requests < MaxRequests
    /\ requests' = requests + 1
    /\ LET uuid == FreshUuid
           streamed == IsSome(body.file)
           w == write_all_chunks_of_field(Unwrap(body.file))
           temp == IF streamed THEN Some(uuid) ELSE None
           tmp == IF streamed
                  THEN [u \in DOMAIN upload_in_progress \cup {uuid} |->
                           IF u = uuid THEN w.written ELSE upload_in_progress[u]]
                  ELSE upload_in_progress
           t == [IdleTask EXCEPT !.kind = "upload", !.wg_id = wg_id, !.temp = temp]
           r == ClientFileEventTryFrom(ParseDto(body, wg_id, temp))
       IN IF streamed /\ w.result = None
          THEN /\ upload_in_progress' = tmp
               /\ tasks' = [tasks EXCEPT ![s] =
                     [t EXCEPT !.pc = "done", !.status = INTERNAL_SERVER_ERROR,
                               !.body = "Error writing multipart chunks"]]
          ELSE IF body.malformed
          THEN /\ upload_in_progress' = tmp
               /\ tasks' = [tasks EXCEPT ![s] = [t EXCEPT !.pc = "panicked"]]
          ELSE IF ~r.ok
          THEN /\ upload_in_progress' = RemoveTemp(tmp, temp)
               /\ tasks' = [tasks EXCEPT ![s] =
                     [t EXCEPT !.pc = "done", !.status = BAD_REQUEST, !.body = r.err]]
          ELSE /\ upload_in_progress' = tmp
               /\ tasks' = [tasks EXCEPT ![s] =
                     [t EXCEPT !.pc = "parsed", !.event = Some(r.event),
                               !.client_id = client_id]]
    /\ UNCHANGED <<history, db, upload, now, sync_request, instructions, arg, ret,
                   configVars, clientVars>>

\* process_upload, get_latest_event under the guard and the admission test
UploadAdmit(s) ==
    /\ tasks[s].kind = "upload" /\ tasks[s].pc = "parsed"
    /\ tasks' = [tasks EXCEPT ![s] =
          [@ EXCEPT !.pc = IF NotLatest(history, Unwrap(tasks[s].event))
                           THEN "stale" ELSE "admitted",
                    !.guard = FALSE]]
    /\ UNCHANGED <<history, db, upload, upload_in_progress, now, requests,
                   sync_request, instructions, arg, ret, configVars, clientVars>>

\* upload_handler's map_err for "not latest": the temp file is removed and
\* the request answered 400
UploadReject(s) ==
    /\ tasks[s].kind = "upload" /\ tasks[s].pc = "stale"
    /\ upload_in_progress' =
          RemoveTemp(upload_in_progress, Unwrap(tasks[s].event).temp_file_path)
    /\ tasks' = [tasks EXCEPT ![s] =
          [@ EXCEPT !.pc = "done", !.status = BAD_REQUEST, !.body = "not latest",
                    !.event = None, !.client_id = None]]
    /\ UNCHANGED <<history, db, upload, now, requests, sync_request, instructions,
                   arg, ret, configVars, clientVars>>

\* sync_handler up to the call of get_latest_events: the Json extractor
SyncParse(s, wg_id, client) ==
    /\ Ended(tasks[s])
    /\ requests < MaxRequests
    /\ requests' = requests + 1
    /\ tasks' = [tasks EXCEPT ![s] =
          [IdleTask EXCEPT !.kind = "sync", !.pc = "parsed", !.wg_id = wg_id,
                           !.snapshot = client]]
    /\ UNCHANGED <<history, db, upload, upload_in_progress, now, sync_request,
                   instructions, arg, ret, configVars, clientVars>>

\* sync_handler, get_latest_events under the guard and the two loops
SyncRead(s) ==
    /\ tasks[s].kind = "sync" /\ tasks[s].pc = "parsed"
    /\ \E target \in get_latest_events(history, tasks[s].wg_id) :
          instructions' = sync_handler(target, tasks[s].snapshot)
    /\ sync_request' = Some([wg_id |-> tasks[s].wg_id,
                             client_sync_state |-> tasks[s].snapshot])
    /\ tasks' = [tasks EXCEPT ![s] =
          [@ EXCEPT !.pc = "done", !.status = OK, !.guard = FALSE]]
    /\ UNCHANGED <<history, db, upload, upload_in_progress, now, requests,
                   arg, ret, configVars, clientVars>>

\* the statements that run while the guard lives
Guarded(s) ==
    /\ tasks[s].guard
    /\ \/ UploadAdmit(s)
       \/ UploadAdd(s)
       \/ DeleteAbsent(s)
       \/ DeleteAdd(s)
       \/ SyncRead(s)

\* the steps of a request that wait for the filesystem or the database
Waits(s) ==
    \/ UploadReject(s)
    \/ UploadPublish(s)
    \/ UploadInsert(s)
    \/ DeleteRemove(s)
    \/ DeleteInsert(s)

\* the requests of the specification with the lock: uploads of one chunk
\* and an upload that is turned away before the History is read; deletes
\* of "a" and "a/b"
LockBodies ==
    {b \in WellFormedBodies : Len(Unwrap(b.file).chunks) = 1}
    \cup {b \in OddBodies : b.utc_millis = None}

LockPayloads == {<<"a">>, <<"a", "/", "b">>}

LockNext ==
    \/ \E s \in Slots, wg_id \in WatchGroups, client_id \in ClientIds, body \in LockBodies :
          UploadParse(s, wg_id, client_id, body)
    \/ \E s \in Slots, wg_id \in WatchGroups, client_id \in ClientIds, payload \in LockPayloads :
          DeleteStart(s, wg_id, client_id, payload)
    \/ \E s \in Slots, wg_id \in WatchGroups, client \in ServerSnapshots :
          SyncParse(s, wg_id, client)
    \/ \E s \in Slots : StoreLock(s)
    \/ \E s \in Slots : Guarded(s)
    \/ \E s \in Slots : Waits(s)
    \/ Tick

\* MaxRequests requests, processed concurrently by MaxInFlight tasks, with
\* the steps of the store's mutex
SpecLock == Init /\ [][LockNext]_vars

\* the files of the client of the instructed upload: "a", "a/b" and "_a/a"
InstructedPaths ==
    SyncPaths \cup { << <<"_", "a">>, <<"a">> >> }

InstructedSnapshots ==
    {<<FileDescription(p, sz, t)>> :
        p \in InstructedPaths, sz \in 1..2, t \in 0..MaxMillis}

\* execute, SyncInstruction::Upload(p): the form the client posts for the
\* file the descriptor describes (with the event_type field the dto asks for)
UploadForm(description) ==
    [utc_millis |-> Some(description.last_updated_utc_millis),
     relative_path |-> Some(to_serialized_string(description.relative_path)),
     event_type |-> Some(ChangeEvent),
     file |-> Some([chunks |-> <<[i \in 1..description.size_in_bytes |-> 1]>>,
                    fails |-> FALSE]),
     malformed |-> FALSE]

\* the client executes an Upload instruction of the last sync response
ExecuteUpload(s, client_id) ==
    /\ sync_request /= None
    /\ requests = 0
    /\ \E i \in DOMAIN instructions :
          /\ instructions[i].kind = "Upload"
          /\ LET found == FindDescription(Unwrap(sync_request).client_sync_state,
                                         instructions[i].path)
             IN /\ found /= None
                /\ UploadStart(s, Unwrap(sync_request).wg_id, client_id,
                               UploadForm(Unwrap(found)))

InstructedNext ==
    \/ /\ sync_request = None
       /\ \E wg_id \in WatchGroups, client \in InstructedSnapshots :
             SyncHandler(wg_id, client)
    \/ \E client_id \in ClientIds : ExecuteUpload(1, client_id)
    \/ UploadPublish(1)
    \/ UploadInsert(1)
    \/ UploadAdd(1)

\* a sync request against each history of SyncHistories, then the upload
\* it instructs
SpecInstructed == SyncInit /\ [][InstructedNext]_vars

(***************************************************************************)
(* The client (client/src/main.rs, client/src/execute.rs)                  *)
(***************************************************************************)
serverVars == <<history, db, upload, upload_in_progress, now, tasks, requests,
                sync_request, instructions, arg, ret, configVars>>

\* the x-client-id header build_http_client sets on every request
ClientIdOf(c) == Some(<<"c1", "c2">>[c])

\* get_file_description: the descriptor of the regular file at p
get_file_description(files, p) ==
    FileDescription(p, files[p].size_in_bytes, files[p].last_updated_utc_millis)

\* get_all_file_descriptions: the descriptors of the files below
\* path_to_monitor, in the order read_dir yields them
get_all_file_descriptions(files) ==
    {[i \in DOMAIN f |-> get_file_description(files, f[i])] : f \in Perms(DOMAIN files)}

\* determine_deleted_files with the two scans exchanged
determine_deleted_files_Swapped(last, curr) ==
    SelectSeq(curr, LAMBDA curr_description :
        ~ \E i \in DOMAIN last :
            curr_description.relative_path = last[i].relative_path)

\* determine_deleted_files: the descriptors of last whose path curr lacks
determine_deleted_files(last, curr) ==
    SelectSeq(last, LAMBDA prev_description :
        ~ \E i \in DOMAIN curr :
            prev_description.relative_path = curr[i].relative_path)

\* the JSON body of the sync request as the server reads it: every path is
\* written by Serialize and read by Deserialize
SyncBody(scanned) ==
    [i \in DOMAIN scanned |->
        [scanned[i] EXCEPT !.relative_path =
            DeserializePath(to_serialized_string(@)).path]]

\* the instructions as the client reads them from the JSON response
SyncResponse(sent) ==
    [i \in DOMAIN sent |->
        [sent[i] EXCEPT !.path = DeserializePath(to_serialized_string(@)).path]]

\* the rest of the cycle after the instruction at the head of todo
NextInstruction(p, failed) ==
    [p EXCEPT !.todo = Tail(@), !.failed = @ \/ failed]

\* create_dir_all(file_path.parent()) fails when a component is a file
ParentIsFile(files, p) ==
    \E n \in 1..(Len(p) - 1) : SubSeq(p, 1, n) \in DOMAIN files

\* fs::write fails when the path is a directory
IsClientDir(files, p) ==
    \E q \in DOMAIN files : Len(q) > Len(p) /\ SubSeq(q, 1, Len(p)) = p

\* a cycle begins, with a scan that succeeds or not
Begun(reverb, scanned) ==
    [q \in DOMAIN reverb |->
        [reverb[q] EXCEPT !.cycles = @ + 1,
                          !.scans = IF scanned THEN @ + 1 ELSE @]]

\* loop_scan up to the first request: the scan, and on Ok the deleted files
\* of send_potential_delete_events; on Err the cycle is over and main stores
\* last_scan.unwrap_or_default()
Scan(c, scan_ok) ==
    /\ poll[c].pc = "sleep"
    /\ poll[c].cycles < MaxCycles
    /\ IF ~scan_ok
       THEN /\ last_scans' = [last_scans EXCEPT ![c] =
                                 Some(IF IsSome(@) THEN Unwrap(@) ELSE <<>>)]
            /\ poll' = [poll EXCEPT ![c] =
                  [@ EXCEPT !.cycles = @ + 1, !.lost = FALSE,
                            !.reverb = Begun(@, FALSE)]]
       ELSE /\ \E descriptions \in get_all_file_descriptions(client_files[c]) :
                 LET deleted_files ==
                         IF IsSome(last_scans[c])
                         THEN determine_deleted_files(Unwrap(last_scans[c]), descriptions)
                         ELSE <<>>
                 IN poll' = [poll EXCEPT ![c] =
                       [@ EXCEPT !.pc = IF deleted_files = <<>> THEN "sync" ELSE "deletes",
                                 !.descriptions = descriptions,
                                 !.deleted_files = deleted_files,
                                 !.unsent = deleted_files,
                                 !.todo = <<>>,
                                 !.lost = FALSE,
                                 !.reverb = Begun(@, TRUE)]]
            /\ UNCHANGED last_scans
    /\ UNCHANGED <<client_files, serverVars>>

\* send_potential_delete_events: the delete request for the next deleted
\* file reaches the server
PostDelete(c) ==
    /\ poll[c].pc = "deletes"
    /\ tasks[c].kind = "idle"
    /\ \E wg_id \in WatchGroups :
          delete(c, wg_id, ClientIdOf(c),
                 to_serialized_string(Head(poll[c].unsent).relative_path))
    /\ UNCHANGED requests

\* the deleted file is off the list of the requests still to be made
Notified(p, ok) ==
    LET path == Head(p.unsent).relative_path
    IN [p EXCEPT !.unsent = Tail(@),
                 !.pc = IF Tail(p.unsent) = <<>> THEN "sync" ELSE "deletes",
                 !.lost = @ \/ ~ok,
                 !.reverb = IF path \in DOMAIN @
                            THEN [@ EXCEPT ![path].sent = @ + 1] ELSE @]

\* the result of the delete request, which is logged
DeleteReplied(c) ==
    /\ poll[c].pc = "deletes"
    /\ tasks[c].kind = "delete" /\ Ended(tasks[c])
    /\ tasks' = [tasks EXCEPT ![c] = IdleTask]
    /\ poll' = [poll EXCEPT ![c] =
          Notified(@, tasks[c].pc = "done" /\ tasks[c].status = OK)]
    /\ UNCHANGED <<history, db, upload, upload_in_progress, now, requests,
                   sync_request, instructions, arg, ret, configVars,
                   client_files, last_scans>>

\* the delete request fails on the way (send() returns Err), which is logged
DeleteLost(c) ==
    /\ poll[c].pc = "deletes"
    /\ tasks[c].kind = "idle"
    /\ poll' = [poll EXCEPT ![c] = Notified(@, FALSE)]
    /\ UNCHANGED <<client_files, last_scans, serverVars>>

\* send_to_server_and_receive_instructions: the request is served
PostSync(c) ==
    /\ poll[c].pc = "sync"
    /\ sync_request = None
    /\ \E wg_id \in WatchGroups : SyncHandler(wg_id, SyncBody(poll[c].descriptions))

\* the instructions arrive
SyncReplied(c) ==
    /\ poll[c].pc = "sync"
    /\ sync_request /= None
    /\ Unwrap(sync_request).client_sync_state = SyncBody(poll[c].descriptions)
    /\ poll' = [poll EXCEPT ![c] =
          [@ EXCEPT !.pc = "execute",
                    !.todo = SyncResponse(instructions),
                    !.response = Some(SyncResponse(instructions))]]
    /\ sync_request' = None
    /\ instructions' = <<>>
    /\ UNCHANGED <<history, db, upload, upload_in_progress, now, tasks, requests,
                   arg, ret, configVars, client_files, last_scans>>

\* main: last_scans.insert(*wg_id, next_scan) with the descriptions
\* loop_scan returns, then the sleep until the next cycle
Rescanned(c) ==
    /\ last_scans' = [last_scans EXCEPT ![c] = Some(poll[c].descriptions)]
    /\ poll' = [poll EXCEPT ![c] = [@ EXCEPT !.pc = "sleep", !.cycles = @ + 1]]

\* send_to_server_and_receive_instructions returns Err, which is logged
SyncLost(c) ==
    /\ poll[c].pc = "sync"
    /\ sync_request = None
    /\ last_scans' = [last_scans EXCEPT ![c] = Some(poll[c].descriptions)]
    /\ poll' = [poll EXCEPT ![c] =
          [@ EXCEPT !.pc = "sleep", !.cycles = @ + 1, !.lost = TRUE]]
    /\ UNCHANGED <<client_files, serverVars>>

\* the download instruction for a file of deleted_files is passed over
SkipDownload(c) ==
    /\ poll[c].pc = "execute" /\ poll[c].todo /= <<>>
    /\ Head(poll[c].todo).kind = "Download"
    /\ \E i \in DOMAIN poll[c].deleted_files :
          poll[c].deleted_files[i].relative_path = Head(poll[c].todo).path
    /\ poll' = [poll EXCEPT ![c] = NextInstruction(@, FALSE)]
    /\ UNCHANGED <<client_files, last_scans, serverVars>>

\* the instruction execute is called with
Executing(c, kind) ==
    /\ poll[c].pc = "execute" /\ poll[c].todo /= <<>>
    /\ Head(poll[c].todo).kind = kind
    /\ ~ (kind = "Download" /\
          \E i \in DOMAIN poll[c].deleted_files :
              poll[c].deleted_files[i].relative_path = Head(poll[c].todo).path)

\* execute, SyncInstruction::Upload: get_file_description, whose Err ends
\* the instruction, and the form that is posted
PostUpload(c) ==
    /\ Executing(c, "Upload")
    /\ IF Head(poll[c].todo).path \notin DOMAIN client_files[c]
       THEN /\ poll' = [poll EXCEPT ![c] = NextInstruction(@, TRUE)]
            /\ UNCHANGED <<client_files, last_scans, serverVars>>
       ELSE /\ tasks[c].kind = "idle"
            /\ \E wg_id \in WatchGroups :
                  upload_handler(c, wg_id, ClientIdOf(c),
                      UploadForm(get_file_description(client_files[c],
                                                      Head(poll[c].todo).path)))
            /\ UNCHANGED requests

\* execute, SyncInstruction::Upload: the response text, Ok whatever the
\* status; a connection the server task dropped is an Err
UploadReplied(c) ==
    /\ Executing(c, "Upload")
    /\ tasks[c].kind = "upload" /\ Ended(tasks[c])
    /\ poll' = [poll EXCEPT ![c] =
          NextInstruction(@, tasks[c].pc = "panicked" \/ tasks[c].status /= OK)]
    /\ tasks' = [tasks EXCEPT ![c] = IdleTask]
    /\ UNCHANGED <<history, db, upload, upload_in_progress, now, requests,
                   sync_request, instructions, arg, ret, configVars,
                   client_files, last_scans>>

\* execute, SyncInstruction::Download: the request
GetDownload(c) ==
    /\ Executing(c, "Download")
    /\ tasks[c].kind = "idle"
    /\ \E wg_id \in WatchGroups :
          download(c, wg_id, to_serialized_string(Head(poll[c].todo).path))
    /\ UNCHANGED requests

\* execute, SyncInstruction::Download: error_for_status, bytes,
\* create_dir_all (a panic when it fails) and fs::write
DownloadReplied(c) ==
    /\ Executing(c, "Download")
    /\ tasks[c].kind = "download" /\ Ended(tasks[c])
    /\ LET p == Head(poll[c].todo).path
           files == client_files[c]
           written == [size_in_bytes |-> Len(Unwrap(tasks[c].stream)),
                       last_updated_utc_millis |-> now]
       IN IF tasks[c].status /= OK \/ tasks[c].stream = None
          THEN /\ poll' = [poll EXCEPT ![c] = NextInstruction(@, TRUE)]
               /\ UNCHANGED client_files
          ELSE IF ParentIsFile(files, p)
          THEN /\ poll' = [poll EXCEPT ![c].pc = "panicked"]
               /\ UNCHANGED client_files
          ELSE IF IsClientDir(files, p)
          THEN /\ poll' = [poll EXCEPT ![c] = NextInstruction(@, TRUE)]
               /\ UNCHANGED client_files
          ELSE /\ poll' = [poll EXCEPT ![c] =
                     [NextInstruction(@, FALSE) EXCEPT !.reverb =
                         [q \in DOMAIN @ \ {p} |-> @[q]]]]
               /\ client_files' = [client_files EXCEPT ![c] =
                     [q \in DOMAIN files \cup {p} |-> IF q = p THEN written ELSE files[q]]]
    /\ tasks' = [tasks EXCEPT ![c] = IdleTask]
    /\ UNCHANGED <<history, db, upload, upload_in_progress, now, requests,
                   sync_request, instructions, arg, ret, configVars, last_scans>>

\* execute, SyncInstruction::Delete: remove_file
ExecuteDelete(c) ==
    /\ Executing(c, "Delete")
    /\ LET p == Head(poll[c].todo).path
           files == client_files[c]
       IN IF p \in DOMAIN files
          THEN /\ client_files' = [client_files EXCEPT ![c] =
                     [q \in DOMAIN files \ {p} |-> files[q]]]
               /\ poll' = [poll EXCEPT ![c] =
                     [NextInstruction(@, FALSE) EXCEPT !.reverb =
                         [q \in DOMAIN @ \cup {p} |->
                             IF q = p THEN [sent |-> 0, cycles |-> 0, scans |-> 0]
                             ELSE @[q]]]]
          ELSE /\ poll' = [poll EXCEPT ![c] = NextInstruction(@, TRUE)]
               /\ UNCHANGED client_files
    /\ UNCHANGED <<last_scans, serverVars>>

\* loop_scan returns descriptions after the last instruction
EndCycle(c) ==
    /\ poll[c].pc = "execute" /\ poll[c].todo = <<>>
    /\ Rescanned(c)
    /\ UNCHANGED <<client_files, serverVars>>

\* the user deletes a file of the watched directory while the client sleeps
LocalDelete(c) ==
    /\ poll[c].pc = "sleep"
    /\ \E p \in DOMAIN client_files[c] :
          client_files' = [client_files EXCEPT ![c] =
              [q \in DOMAIN client_files[c] \ {p} |-> client_files[c][q]]]
    /\ UNCHANGED <<last_scans, poll, serverVars>>

\* the server tasks that serve the requests of client c
Serve(c) ==
    \/ UploadPublish(c)
    \/ UploadInsert(c)
    \/ UploadAdd(c)
    \/ DeleteAbsent(c)
    \/ DeleteRemove(c)
    \/ DeleteInsert(c)
    \/ DeleteAdd(c)

\* execute is about to post an upload, or to fail on the missing file
UploadDue(c) ==
    /\ Executing(c, "Upload")
    /\ \/ Head(poll[c].todo).path \notin DOMAIN client_files[c]
       \/ tasks[c].kind = "idle"

\* the steps of a poll cycle of client c after a successful scan when no
\* request fails, but for the posting of an upload
CycleSteps(c) ==
    \/ PostDelete(c)
    \/ DeleteReplied(c)
    \/ PostSync(c)
    \/ SyncReplied(c)
    \/ SkipDownload(c)
    \/ UploadReplied(c)
    \/ GetDownload(c)
    \/ DownloadReplied(c)
    \/ ExecuteDelete(c)
    \/ EndCycle(c)
    \/ Serve(c)

\* one poll cycle of client c without a failing scan or request
PollCycle(c) ==
    \/ Scan(c, TRUE)
    \/ CycleSteps(c)
    \/ PostUpload(c)

\* the files of the clients: "a" and "_a/a"
PollPaths == { << <<"a">> >>, << <<"_", "a">>, <<"a">> >> }

\* size and modification time of a file that exists when the clients start
FileStates == [size_in_bytes : 1..2, last_updated_utc_millis : 0..1]

\* the watched directories with files at some of paths
ClientTrees(paths) == UNION {[S -> FileStates] : S \in SUBSET paths}

\* a file of n bytes
Bytes(n) == [i \in 1..n |-> 1]

\* History and mirrored tree after no request, after an upload of "a", and
\* after a delete of "a"
MirroredStates ==
    LET root == [p \in {<<>>} |-> Dir]
        a == << <<"a">> >>
        dir(wg_id) == CreateDirAll(root, upload_path_for_wg(wg_id))
    IN {[history |-> EmptyMap, upload |-> root]}
       \cup {[history |-> HistoryAdd(EmptyMap, FileEvent(t, a, sz, ChangeEvent, wg_id)),
              upload |-> RenameInto(dir(wg_id), upload_path_for_wg(wg_id) \o a, Bytes(sz))] :
                wg_id \in WatchGroups, sz \in 1..2, t \in 0..1}
       \cup {[history |-> HistoryAdd(EmptyMap, FileEvent(t, a, 0, DeleteEvent, wg_id)),
              upload |-> dir(wg_id)] : wg_id \in WatchGroups, t \in 0..1}

\* the last scan of a client that starts, or that ran when "a" was there
LastScans == {None, Some(<<FileDescription(<< <<"a">> >>, 1, 0)>>)}

\* the server in one of MirroredStates and no request under way
PollServerInit ==
    /\ \E m \in MirroredStates : history = m.history /\ upload = m.upload
    /\ db = <<>>
    /\ upload_in_progress = EmptyMap
    /\ now = 1
    /\ tasks = [s \in Slots |-> IdleTask]
    /\ requests = 0
    /\ ConfigIdle
    /\ SyncIdle
    /\ LibIdle

\* one client with any tree, the other one not running
PollInit ==
    /\ PollServerInit
    /\ \E tree \in ClientTrees(PollPaths) :
          client_files = [c \in Pollers |-> IF c = 1 THEN tree ELSE EmptyMap]
    /\ \E last \in LastScans :
          last_scans = [c \in Pollers |-> IF c = 1 THEN last ELSE None]
    /\ poll = [c \in Pollers |-> IdlePoll]

\* the poll cycles of one client with scans and requests that may fail and
\* files the user deletes
PollNext ==
    \/ PollCycle(1)
    \/ Scan(1, FALSE)
    \/ DeleteLost(1)
    \/ SyncLost(1)
    \/ LocalDelete(1)
    \/ Tick

SpecPoll == PollInit /\ [][PollNext]_vars

\* the poll cycles of one client when nothing fails and no file is edited
QuietPollNext ==
    \/ PollCycle(1)
    \/ Tick

\* the client loops and the runtime schedules every task: no step that
\* can be taken is put off forever (PostUpload can be taken exactly when
\* UploadDue holds)
QuietPollFair ==
    /\ WF_vars(Scan(1, TRUE) \/ CycleSteps(1) \/ Tick)
    /\ ([]<>~UploadDue(1) \/ []<><<PostUpload(1)>>_vars)

SpecQuietPoll == PollInit /\ [][QuietPollNext]_vars /\ QuietPollFair

\* two clients, each with "a" or without
TwoInit ==
    /\ PollServerInit
    /\ client_files \in [Pollers -> ClientTrees({ << <<"a">> >> })]
    /\ last_scans = [c \in Pollers |-> None]
    /\ poll = [c \in Pollers |-> IdlePoll]

\* the clients poll at the same interval: c begins a cycle when no other
\* client is in one and none has begun fewer
Turn(c) ==
    \A d \in Pollers \ {c} :
        poll[d].pc = "sleep" /\ poll[c].cycles <= poll[d].cycles

\* the poll cycles of two clients, one cycle at a time
TwoNext ==
    \/ \E c \in Pollers : (Turn(c) /\ Scan(c, TRUE))
    \/ \E c \in Pollers : CycleSteps(c)
    \/ \E c \in Pollers : PostUpload(c)
    \/ Tick

\* the steps of TwoNext but for the posting of an upload
TwoSteps ==
    \/ \E c \in Pollers : (Turn(c) /\ Scan(c, TRUE))
    \/ \E c \in Pollers : CycleSteps(c)
    \/ Tick

\* both clients loop and the runtime schedules every task
TwoFair ==
    /\ WF_vars(TwoSteps)
    /\ \A c \in Pollers : []<>~UploadDue(c) \/ []<><<PostUpload(c)>>_vars

SpecTwo == TwoInit /\ [][TwoNext]_vars /\ TwoFair

\* MaxInFlight requests, one to a task, processed concurrently
Spec == Init /\ [][Next]_vars

(***************************************************************************)
(* Properties                                                              *)
(***************************************************************************)
\* the vector stored for (wg, p), <<>> when there is none
EventsOf(store, wg, p) ==
    IF wg \in DOMAIN store /\ p \in DOMAIN store[wg] THEN store[wg][p] ELSE <<>>

Keys(store) == {<<wg, p>> : wg \in DOMAIN store, p \in UNION {DOMAIN store[w] : w \in DOMAIN store}}

SortedByUtcMillis(vec) ==
    \A i, j \in DOMAIN vec : i < j => vec[i].utc_millis <= vec[j].utc_millis

\* the file of the mirrored tree that (wg, p) stands for
MirroredFile(wg, p) == upload_path_for_wg(wg) \o p

\* C1: in every interleaving of concurrent uploads the events appended to the
\* history of a (watch group, path) are in non-decreasing utc_millis order
C1_UploadsAppendChronologically ==
    \A wg \in DOMAIN history : \A p \in DOMAIN history[wg] :
        SortedByUtcMillis(history[wg][p])

\* C2: when no request is in flight, the mirrored file of every (watch group,
\* path) with events exists if the last event is a change and is absent if
\* the last event is a delete
C2_MirrorAgreesWithLatestEvent ==
    NoneInFlight =>
        \A wg \in DOMAIN history : \A p \in DOMAIN history[wg] :
            history[wg][p] /= <<>> =>
                LET latest == Last(history[wg][p])
                IN /\ latest.event_type = ChangeEvent => IsFile(upload, MirroredFile(wg, p))
                   /\ latest.event_type = DeleteEvent => ~Exists(upload, MirroredFile(wg, p))

\* C3: after any sequence of non-overlapping uploads and deletes every vector
\* of the history is sorted by utc_millis and holds only events of its key
C3_HistorySortedAndKeyed ==
    \A wg \in DOMAIN history : \A p \in DOMAIN history[wg] :
        /\ SortedByUtcMillis(history[wg][p])
        /\ \A i \in DOMAIN history[wg][p] :
              /\ history[wg][p][i].relative_path = p
              /\ history[wg][p][i].watch_group_id = wg

\* the last event stored for every path of wg that has one
LatestOf(wg) ==
    IF wg \notin DOMAIN history THEN {}
    ELSE {Last(history[wg][p]) : p \in {q \in DOMAIN history[wg] : history[wg][q] /= <<>>}}

PairwiseDistinctPaths(client) ==
    \A i, j \in DOMAIN client : i /= j => client[i].relative_path /= client[j].relative_path

\* the instructions C4 lists for a watch group and a client snapshot
ExpectedInstructions(wg, client) ==
    LET has(p) == \E i \in DOMAIN client : client[i].relative_path = p
        desc(p) == client[CHOOSE i \in DOMAIN client : client[i].relative_path = p]
        same(e) == e.event_type = ChangeEvent
                   /\ desc(e.relative_path).size_in_bytes = e.size_in_bytes
        older(e) == desc(e.relative_path).last_updated_utc_millis < e.utc_millis
    IN {Download(e.relative_path) : e \in {f \in LatestOf(wg) :
            /\ f.event_type = ChangeEvent
            /\ ~has(f.relative_path) \/ (~same(f) /\ older(f))}}
       \cup {Delete(e.relative_path) : e \in {f \in LatestOf(wg) :
            f.event_type = DeleteEvent /\ has(f.relative_path) /\ older(f)}}
       \cup {Upload(e.relative_path) : e \in {f \in LatestOf(wg) :
            has(f.relative_path) /\ ~same(f) /\ ~older(f)}}
       \cup {Upload(client[i].relative_path) : i \in {j \in DOMAIN client :
            \A f \in LatestOf(wg) : f.relative_path /= client[j].relative_path}}

\* C4: for a client snapshot with pairwise distinct paths sync_handler
\* returns exactly the instructions of the decision table, each once:
\* Download for a change the client lacks or has older with another size,
\* Delete for a delete the client has older, Upload when the client is not
\* older (and not same-size with a change), Upload for client-only paths
C4_SyncHandlerDecisionTable ==
    IsSome(sync_request) =>
        LET req == Unwrap(sync_request)
        IN PairwiseDistinctPaths(req.client_sync_state) =>
              /\ Range(instructions) =
                    ExpectedInstructions(req.wg_id, req.client_sync_state)
              /\ \A i, j \in DOMAIN instructions :
                    i /= j => instructions[i] /= instructions[j]

\* a sync answered with a Delete for one path and an Upload for another
C4_Witness ==
    /\ IsSome(sync_request)
    /\ PairwiseDistinctPaths(Unwrap(sync_request).client_sync_state)
    /\ \E i, j \in DOMAIN instructions :
          instructions[i].kind = "Delete" /\ instructions[j].kind = "Upload"

\* the body carries utc_millis, relative_path, event_type and a file whose
\* stream ends normally, and is not malformed
Complete(body) ==
    /\ IsSome(body.utc_millis) /\ IsSome(body.relative_path)
    /\ IsSome(body.event_type)
    /\ IsSome(body.file) /\ ~Unwrap(body.file).fails
    /\ ~body.malformed

\* the MatchablePath the upload route builds from the relative_path field
BodyPath(body) == MatchablePathFromVec(Split(Unwrap(body.relative_path), "/"))

\* the upload's utc_millis is below that of the last event of its path
Stale(wg, body) ==
    LET vec == EventsOf(history, wg, BodyPath(body))
    IN vec /= <<>> /\ Unwrap(body.utc_millis) < Last(vec).utc_millis

\* number of events in the store
TotalEvents(store) ==
    Cardinality({<<wg, q, i>> \in
        UNION {UNION {{<<w, r, k>> : k \in DOMAIN store[w][r]} : r \in DOMAIN store[w]} :
                 w \in DOMAIN store} : TRUE})

\* C5: an upload whose utc_millis is below that of the latest history event
\* of its path is answered 400 "not latest", leaves the history, the
\* file_event table and the mirrored tree unchanged, and its temp file is
\* gone when the request ends
C5_StaleUploadRejected ==
    [][\A s \in Slots, wg \in WatchGroups, cid \in ClientIds, body \in MultipartBodies :
          (/\ tasks'[s] /= tasks[s] /\ Complete(body) /\ Stale(wg, body)
           /\ UploadStart(s, wg, cid, body)) =>
              /\ tasks'[s].pc = "done"
              /\ tasks'[s].status = BAD_REQUEST
              /\ tasks'[s].body = "not latest"
              /\ history' = history /\ db' = db /\ upload' = upload
              /\ IsSome(tasks'[s].temp)
              /\ Unwrap(tasks'[s].temp) \notin DOMAIN upload_in_progress']_vars

\* an upload was answered 400 "not latest"
C5_Witness ==
    \E s \in Slots :
        /\ tasks[s].kind = "upload" /\ tasks[s].pc = "done"
        /\ tasks[s].status = BAD_REQUEST /\ tasks[s].body = "not latest"

\* nothing in the mirrored tree stands in the way of the file: no ancestor is
\* a regular file and the target is not a directory
Placeable(fs, target) ==
    /\ \A q \in Prefixes(Front(target)) : ~IsFile(fs, q)
    /\ ~IsDir(fs, target)

\* the steps of an upload that passes the admission test, up to its answer;
\* with unblocked the publishing step is looked at only when nothing in the
\* tree stands in the way of the file. The watch group's directory is taken
\* not to have been replaced by a file (what an upload with an empty path
\* does, see C9)
AdmittedUploadSteps(unblocked) ==
    /\ \A s \in Slots, wg \in WatchGroups, cid \in ClientIds, body \in MultipartBodies :
          (/\ tasks'[s] /= tasks[s] /\ Complete(body)
           /\ Unwrap(body.event_type) = ChangeEvent
           /\ BodyPath(body) /= <<>> /\ ~Stale(wg, body)
           /\ UploadStart(s, wg, cid, body)) =>
              /\ tasks'[s].pc = "admitted"
              /\ Unwrap(tasks'[s].event).utc_millis = Unwrap(body.utc_millis)
              /\ Unwrap(tasks'[s].event).relative_path = BodyPath(body)
              /\ Unwrap(tasks'[s].event).content_size = SumLen(Unwrap(body.file).chunks)
              /\ upload_in_progress'[Unwrap(tasks'[s].temp)] = Concat(Unwrap(body.file).chunks)
              /\ Len(Concat(Unwrap(body.file).chunks)) = SumLen(Unwrap(body.file).chunks)
    /\ \A s \in Slots :
          (/\ UploadPublish(s) /\ IsSome(tasks[s].temp)
           /\ Unwrap(tasks[s].event).relative_path /= <<>>
           /\ Unwrap(tasks[s].event).event_type = ChangeEvent
           /\ ~IsFile(upload, upload_path_for_wg(tasks[s].wg_id))
           /\ unblocked => Placeable(upload, MirroredFile(tasks[s].wg_id,
                                            Unwrap(tasks[s].event).relative_path))) =>
              /\ tasks'[s].pc = "renamed"
              /\ upload'[MirroredFile(tasks[s].wg_id, Unwrap(tasks[s].event).relative_path)]
                    = File(upload_in_progress[Unwrap(tasks[s].temp)])
    /\ \A s \in Slots :
          UploadInsert(s) =>
              tasks'[s].pc = "inserted" /\ upload' = upload /\ history' = history
    /\ \A s \in Slots :
          (UploadAdd(s) /\ Unwrap(tasks[s].event).event_type = ChangeEvent) =>
              LET e == Unwrap(tasks[s].event)
                  wg == tasks[s].wg_id
                  file == MirroredFile(wg, e.relative_path)
              IN /\ tasks'[s].pc = "done" /\ tasks'[s].status = OK
                 /\ EventsOf(history', wg, e.relative_path) =
                       Append(EventsOf(history, wg, e.relative_path),
                              FileEvent(e.utc_millis, e.relative_path, e.content_size,
                                        ChangeEvent, wg))
                 /\ get_latest_event(history', wg, e.relative_path) =
                       Some(FileEvent(e.utc_millis, e.relative_path, e.content_size,
                                      ChangeEvent, wg))
                 /\ upload' = upload
                 /\ IsFile(upload, file)
                 /\ Len(upload[file].content) = e.content_size

C8_NoTempFileAfterFailedUpload ==
    \A s \in Slots :
        (tasks[s].kind = "upload" /\ tasks[s].pc = "done" /\ tasks[s].status /= OK) =>
            (IsSome(tasks[s].temp) =>
                Unwrap(tasks[s].temp) \notin DOMAIN upload_in_progress)

\* the upload lacks utc_millis, relative_path or file, or its relative_path
\* has no segment left after stripping
Invalid(body) ==
    \/ body.utc_millis = None
    \/ body.relative_path = None
    \/ body.file = None
    \/ IsSome(body.relative_path) /\ BodyPath(body) = <<>>

\* C9: an upload that lacks utc_millis, relative_path or file, or whose
\* relative_path has no valid segment, is answered 400 and leaves the
\* history, the file_event table and the mirrored tree unchanged
C9_InvalidUploadRejected ==
    [][\A s \in Slots, wg \in WatchGroups, cid \in ClientIds, body \in MultipartBodies :
          (/\ tasks'[s] /= tasks[s] /\ Invalid(body) /\ ~body.malformed
           /\ (IsSome(body.file) => ~Unwrap(body.file).fails)
           /\ UploadStart(s, wg, cid, body)) =>
              /\ tasks'[s].pc = "done"
              /\ tasks'[s].status = BAD_REQUEST
              /\ history' = history /\ db' = db /\ upload' = upload]_vars

\* C10: a delete of a path that has no file in the mirrored tree is answered
\* 200 with the informational message and appends exactly one event to the
\* history, a delete event of size 0 with the server time, under its
\* (watch group, path)
C10_DeleteOfAbsentFile ==
    [][/\ \A s \in Slots, wg \in WatchGroups, cid \in ClientIds, payload \in RawPaths :
            (/\ tasks'[s] /= tasks[s]
             /\ NormalComponents(payload) /= <<>>
             /\ ~Exists(upload, MirroredFile(wg, NormalComponents(payload)))
             /\ DeleteStart(s, wg, cid, payload)) =>
                /\ tasks'[s].pc = "absent"
                /\ tasks'[s].event =
                      Some(FileEvent(now, NormalComponents(payload), 0, DeleteEvent, wg))
       /\ \A s \in Slots :
            DeleteAbsent(s) =>
                LET e == Unwrap(tasks[s].event)
                IN /\ tasks'[s].pc = "done" /\ tasks'[s].status = OK
                   /\ tasks'[s].body = NothingToDo
                   /\ EventsOf(history', e.watch_group_id, e.relative_path) =
                         Append(EventsOf(history, e.watch_group_id, e.relative_path), e)
                   /\ e.event_type = DeleteEvent /\ e.size_in_bytes = 0
                   /\ TotalEvents(history') = TotalEvents(history) + 1
                   /\ upload' = upload]_vars

\* a delete was answered 200 with the informational message
C10_Witness ==
    \E s \in Slots :
        /\ tasks[s].kind = "delete" /\ tasks[s].pc = "done" /\ tasks[s].status = OK
        /\ tasks[s].body = NothingToDo

\* C11: when the mirrored file exists and removing it fails, the delete is
\* answered 500, the file is still there, and neither the history nor the
\* file_event table gains an event
C11_FailedRemovalRecordsNothing ==
    [][\A s \in Slots :
          LET e == Unwrap(tasks[s].event)
              p == MirroredFile(e.watch_group_id, e.relative_path)
          IN (DeleteRemove(s) /\ Exists(upload, p) /\ tasks'[s].pc /= "removed") =>
                /\ tasks'[s].pc = "done"
                /\ tasks'[s].status = INTERNAL_SERVER_ERROR
                /\ Exists(upload', p) /\ upload' = upload
                /\ history' = history /\ db' = db]_vars

\* a delete of an existing regular file was answered 500 and the file is there
C11_Witness ==
    \E s \in Slots :
        /\ tasks[s].kind = "delete" /\ tasks[s].pc = "done"
        /\ tasks[s].status = INTERNAL_SERVER_ERROR
        /\ IsFile(upload, MirroredFile(tasks[s].wg_id,
                                       Unwrap(tasks[s].event).relative_path))

\* the part of the mirrored tree below upload/{wg}
TreeOf(fs, wg) ==
    LET root == upload_path_for_wg(wg)
        below == {q \in DOMAIN fs :
                     Len(q) >= Len(root) /\ SubSeq(q, 1, Len(root)) = root}
    IN [q \in below |-> fs[q]]

\* the history entries of a watch group
EntriesOf(store, wg) == IF wg \in DOMAIN store THEN store[wg] ELSE EmptyMap

\* C12: a step of an upload or a delete for watch group A (history.add
\* included) leaves the history entries, the get_latest_events result and
\* the mirrored tree of every other watch group B as they were, also when
\* both use the same relative path
C12_WatchGroupsIsolated ==
    [][\A s \in Slots, B \in TwoWatchGroups :
          (tasks'[s] /= tasks[s] /\ tasks'[s].wg_id /= B) =>
              /\ EntriesOf(history', B) = EntriesOf(history, B)
              /\ get_latest_events(history', B) = get_latest_events(history, B)
              /\ TreeOf(upload', B) = TreeOf(upload, B)]_vars

\* both watch groups have an event and a file under the same relative path
C12_Witness ==
    \E p \in {<< <<"a">> >>} :
        \A wg \in TwoWatchGroups :
            /\ EventsOf(history, wg, p) /= <<>>
            /\ IsFile(upload, MirroredFile(wg, p))

\* C13: the path the upload route builds from a slash-delimited string
\* equals the path the OS-path constructor builds from the same string
C13_UploadPathEqualsOsPath ==
    (/\ IsSome(ret.from_path) /\ IsSome(ret.from_segments)
     /\ Unwrap(ret.from_path).outcome = "ok") =>
        Unwrap(ret.from_segments) = Unwrap(ret.from_path)

\* the segments a path must not have
ForbiddenSegment(seg) ==
    seg \in {<<".", ".">>, <<".">>, <<"~">>} \/ Trim(seg) = <<>>

\* C14: every path a constructor returns is non-empty and has no segment
\* equal to "..", ".", "~" or empty after trimming
C14_PathsAreNonEmptyAndClean ==
    \A c \in {"from_path", "from_segments", "deserialize"} :
        (IsSome(ret[c]) /\ Unwrap(ret[c]).outcome = "ok") =>
            /\ Unwrap(ret[c]).path /= <<>>
            /\ \A i \in DOMAIN Unwrap(ret[c]).path :
                  ~ForbiddenSegment(Unwrap(ret[c]).path[i])

\* C15: deserializing an input that leaves no segment after stripping
\* returns an error value: no path, and no panic of the deserializing task
C15_EmptyPathDeserializesToError ==
    (IsSome(ret.deserialize) /\ NormalComponents(Unwrap(arg)) = <<>>) =>
        Unwrap(ret.deserialize).outcome = "err"

\* the positions of the events of (wg, p) in a list
KeyIndices(list, wg, p) ==
    {i \in DOMAIN list : list[i].watch_group_id = wg /\ list[i].relative_path = p}

\* vec holds exactly the events of list at the positions idx, sorted by
\* utc_millis non-decreasing, events of one timestamp in the order of list
StableSelection(vec, list, idx) ==
    /\ Len(vec) = Cardinality(idx)
    /\ \E f \in [DOMAIN vec -> idx] :
          /\ \A i, j \in DOMAIN vec : i /= j => f[i] /= f[j]
          /\ \A i \in DOMAIN vec : vec[i] = list[f[i]]
          /\ \A i, j \in DOMAIN vec :
                i < j => /\ vec[i].utc_millis <= vec[j].utc_millis
                         /\ vec[i].utc_millis = vec[j].utc_millis => f[i] < f[j]

\* C17: for every event list, in any order and with any mix of watch groups
\* and paths, from builds a store in which the vector of each (watch group,
\* path) holds exactly the input events of that key, sorted by utc_millis
\* non-decreasing with events of one timestamp in input order; sanity_check
\* does not panic
C17_FromSortsAndGroups ==
    IsSome(ret) =>
        /\ ~Unwrap(ret).panicked
        /\ \A wg \in TwoWatchGroups, p \in SyncPaths :
              StableSelection(EventsOf(history, wg, p), Unwrap(arg),
                              KeyIndices(Unwrap(arg), wg, p))
        /\ \A wg \in DOMAIN history : \A p \in DOMAIN history[wg] :
              wg \in TwoWatchGroups /\ p \in SyncPaths /\ history[wg][p] /= <<>>

\* a store built from a list that was out of order and has two different
\* events of one timestamp under one key
C17_Witness ==
    /\ IsSome(ret)
    /\ \E i \in 1..(Len(Unwrap(arg)) - 1) :
          Unwrap(arg)[i].utc_millis > Unwrap(arg)[i + 1].utc_millis
    /\ \E wg \in DOMAIN history : \E p \in DOMAIN history[wg] :
          \E i \in 1..(Len(history[wg][p]) - 1) :
              /\ history[wg][p][i].utc_millis = history[wg][p][i + 1].utc_millis
              /\ history[wg][p][i] /= history[wg][p][i + 1]

\* the event of (wg, p) that was added last, if any
LastAdded(list, wg, p) ==
    LET idx == KeyIndices(list, wg, p)
    IN IF idx = {} THEN None
       ELSE Some(list[CHOOSE i \in idx : \A j \in idx : j <= i])

\* C18: after any sequence of add calls get_latest_event(wg, p) is the event
\* added last for (wg, p), or None when there is none, and
\* get_latest_events(wg) holds exactly one event for each path that has an
\* event in wg, namely the one added last, delete events included
C18_LatestIsLastAdded ==
    \A wg \in TwoWatchGroups :
        /\ \A p \in SyncPaths :
              get_latest_event(history, wg, p) = LastAdded(arg, wg, p)
        /\ \A latest \in get_latest_events(history, wg) :
              /\ Len(latest) = Cardinality({p \in SyncPaths : IsSome(LastAdded(arg, wg, p))})
              /\ \A p \in SyncPaths :
                    IsSome(LastAdded(arg, wg, p)) =>
                        \E i \in DOMAIN latest : latest[i] = Unwrap(LastAdded(arg, wg, p))

\* a delete event was added last for a path, after a change event with a
\* larger utc_millis, and the watch group has a second path
C18_Witness ==
    \E wg \in TwoWatchGroups :
        /\ \A p \in SyncPaths : IsSome(LastAdded(arg, wg, p))
        /\ \E p \in SyncPaths :
              LET vec == EventsOf(history, wg, p)
              IN /\ Len(vec) >= 2
                 /\ Last(vec).event_type = DeleteEvent
                 /\ vec[Len(vec) - 1].utc_millis > Last(vec).utc_millis


\* the rows of the clients other than client_id
OtherRows(d, client_id) ==
    LET others == SelectSeq(d.client_watch_group, LAMBDA r : r.client_id /= client_id)
        ids == {others[i].id : i \in DOMAIN others}
    IN [client |-> [c \in DOMAIN d.client \ {client_id} |-> d.client[c]],
        client_watch_group |-> others,
        excluded_dir |-> SelectSeq(d.excluded_dir,
                                   LAMBDA r : r.client_watch_group \in ids)]

\* the tables hold exactly config for client_id, under host_name
Stored(d, client_id, host_name, config) ==
    /\ client_id \in DOMAIN d.client
    /\ d.client[client_id] =
          [host_name |-> host_name,
           min_poll_interval_in_ms |-> config.min_poll_interval_in_ms]
    /\ get_client_config(d, client_id) = Some(config)

UpsertPcs ==
    {"upsert_client", "delete_watch_groups", "insert_watch_groups",
     "insert_excluded_dirs"}

\* C20: a step of upsert_client_config either leaves the three tables as
\* they are, or it is the commit, after which the tables hold exactly the
\* given config for the client and the rows of other clients are as
\* before; a step on which a statement fails leaves the tables as they are.
C20_UpsertIsAllOrNothing ==
    [][\A s \in Slots :
         (/\ config_tasks'[s] /= config_tasks[s]
          /\ config_tasks[s].pc \in UpsertPcs)
         => LET t == config_tasks[s]
                u == config_tasks'[s]
            IN IF u.pc = "done" /\ u.status = OK
               THEN /\ Stored(config_db', t.client_id, t.host_name, t.config)
                    /\ OtherRows(config_db', t.client_id) = OtherRows(config_db, t.client_id)
               ELSE config_db' = config_db]_vars

\* a post_config failed on a statement while the client's stored watch
\* groups differ from the ones it was to store
C20_Witness ==
    \E s \in Slots :
        /\ config_tasks[s].kind = "post_config"
        /\ config_tasks[s].pc = "done"
        /\ config_tasks[s].status = INTERNAL_SERVER_ERROR
        /\ get_client_config(config_db, config_tasks[s].client_id) /= None
        /\ get_client_config(config_db, config_tasks[s].client_id)
              /= Some(config_tasks[s].config)
        /\ SelectWatchGroups(config_db, config_tasks[s].client_id) /= EmptyMap


\* old is new, or new is old with one more element at its end
SameOrOneMore(old, new) ==
    \/ new = old
    \/ /\ Len(new) = Len(old) + 1
       /\ SubSeq(new, 1, Len(old)) = old

\* C16: every step of the server (upload, delete, sync, download, config
\* request) leaves the History vector of each (watch group, path) as it
\* is or puts exactly one event at its end, and leaves every existing
\* file_event row in place and as it is.
C16_HistoryAndRowsAppendOnly ==
    [][/\ \A key \in Keys(history) \cup Keys(history') :
             SameOrOneMore(EventsOf(history, key[1], key[2]),
                           EventsOf(history', key[1], key[2]))
       /\ Len(db') >= Len(db)
       /\ SubSeq(db', 1, Len(db)) = db]_vars

\* a vector and the table both hold two events, and a sync request was
\* served
C16_Witness ==
    /\ \E key \in Keys(history) : Len(EventsOf(history, key[1], key[2])) = 2
    /\ Len(db) = 2
    /\ sync_request /= None


\* the client_watch_group rows of client_id
GroupRows(d, client_id) ==
    SelectSeq(d.client_watch_group, LAMBDA r : r.client_id = client_id)

\* the excluded-dir rows that belong to the rows of client_id
DirRows(d, client_id) ==
    LET ids == {GroupRows(d, client_id)[i].id : i \in DOMAIN GroupRows(d, client_id)}
    IN SelectSeq(d.excluded_dir, LAMBDA r : r.client_watch_group \in ids)

RECURSIVE DirCount(_, _)
DirCount(config, groups) ==
    IF groups = {} THEN 0
    ELSE LET k == CHOOSE g \in groups : TRUE
         IN Len(config.watch_groups[k].exclude_dirs) + DirCount(config, groups \ {k})

\* C21: the step that commits upsert_client_config(id, host, cfg) leaves
\* one client row for id with host and cfg's poll interval; get_client_config
\* then returns cfg's poll interval and exactly cfg's watch groups with
\* their path_to_monitor, exclude_dirs and exclude_dot_dirs; the tables hold
\* one binding per watch group of cfg and one excluded-dir row per
\* excluded dir of cfg for id, and no excluded-dir row without a binding.
C21_UpsertReplacesConfig ==
    [][\A s \in Slots :
         (/\ config_tasks'[s] /= config_tasks[s]
          /\ config_tasks[s].pc \in UpsertPcs
          /\ config_tasks'[s].pc = "done"
          /\ config_tasks'[s].status = OK)
         => LET t == config_tasks[s]
                id == t.client_id
                got == get_client_config(config_db', id)
            IN /\ id \in DOMAIN config_db'.client
               /\ config_db'.client[id].host_name = t.host_name
               /\ got /= None
               /\ Unwrap(got).min_poll_interval_in_ms = t.config.min_poll_interval_in_ms
               /\ DOMAIN Unwrap(got).watch_groups = DOMAIN t.config.watch_groups
               /\ \A k \in DOMAIN t.config.watch_groups :
                     Unwrap(got).watch_groups[k] = t.config.watch_groups[k]
               /\ Len(GroupRows(config_db', id)) = Cardinality(DOMAIN t.config.watch_groups)
               /\ Len(DirRows(config_db', id)) =
                     DirCount(t.config, DOMAIN t.config.watch_groups)
               /\ \A i \in DOMAIN config_db'.excluded_dir :
                     \E j \in DOMAIN config_db'.client_watch_group :
                        config_db'.client_watch_group[j].id =
                           config_db'.excluded_dir[i].client_watch_group]_vars

\* two configs with different watch groups were committed for one client,
\* and the tables hold the one with fewer excluded dirs
C21_Witness ==
    \E s, o \in Slots :
        /\ s /= o
        /\ config_tasks[s].kind = "post_config" /\ config_tasks[o].kind = "post_config"
        /\ config_tasks[s].pc = "done" /\ config_tasks[o].pc = "done"
        /\ config_tasks[s].status = OK /\ config_tasks[o].status = OK
        /\ config_tasks[s].client_id = config_tasks[o].client_id
        /\ config_tasks[o].config.watch_groups /= EmptyMap
        /\ DirCount(config_tasks[s].config, DOMAIN config_tasks[s].config.watch_groups)
              < DirCount(config_tasks[o].config, DOMAIN config_tasks[o].config.watch_groups)
        /\ get_client_config(config_db, config_tasks[s].client_id)
              = Some(config_tasks[s].config)


\* C22: whenever no request is in flight, the boot of the server on the
\* stored file_event rows does not panic and builds a History with the same
\* latest event for every (watch group, path) as the running History has.
C22_RebuiltHistoryAgrees ==
    NoneInFlight =>
        /\ ~BootPanics(db)
        /\ \A key \in Keys(history) \cup Keys(BootHistory(db)) :
              get_latest_event(BootHistory(db), key[1], key[2])
                 = get_latest_event(history, key[1], key[2])


\* C23: the upload a client sends for an Upload(p) instruction, carrying
\* the utc_millis of the descriptor the instruction was computed from while
\* the History is as it was at the sync request, is not answered
\* "not latest".
C23_InstructedUploadAdmitted ==
    [][(/\ sync_request /= None
        /\ tasks[1].kind = "idle"
        /\ tasks'[1].kind = "upload")
       => ~(tasks'[1].pc = "done" /\ tasks'[1].body = "not latest")]_vars


\* C28: a step of an upload inserts a row only when the temp file has been
\* moved onto the target before, and appends to the History only after the
\* insert step; the step that moves the file changes neither; when the move
\* fails the upload ends with status 500 and neither the table nor the
\* History has changed.
C28_MoveThenInsertThenAdd ==
    [][\A s \in Slots :
         (/\ tasks'[s] /= tasks[s]
          /\ tasks[s].kind = "upload"
          /\ ~Ended(tasks[s]))
         => LET t == tasks[s]
                u == tasks'[s]
                target == upload_path_for_wg(t.wg_id) \o Unwrap(t.event).relative_path
            IN /\ db' /= db => (t.pc = "renamed" /\ history' = history)
               /\ history' /= history => (t.pc = "inserted" /\ db' = db)
               /\ u.pc = "renamed" =>
                     /\ t.pc = "admitted"
                     /\ IsFile(upload', target)
                     /\ IsSome(t.temp) /\ Unwrap(t.temp) \notin DOMAIN upload_in_progress'
               /\ u.pc = "inserted" => t.pc = "renamed"
               /\ (t.pc = "admitted" /\ u.pc = "done") =>
                     /\ u.status = INTERNAL_SERVER_ERROR
                     /\ db' = db /\ history' = history]_vars

\* an upload ended on a failed move after another upload was stored
C28_Witness ==
    \E s \in Slots :
        /\ tasks[s].kind = "upload" /\ tasks[s].pc = "done"
        /\ tasks[s].status = INTERNAL_SERVER_ERROR
        /\ tasks[s].body = "Updating failed"
        /\ Len(db) = 1
        /\ Cardinality(Keys(history)) = 1


\* C29: in the response to a sync request, Download(p) stands only for a
\* path whose latest event is a change; Delete(p) only for a path whose
\* latest event is a delete and which the snapshot holds with a
\* last_updated_utc_millis below the event's utc_millis; Upload(p) only for
\* a path of the snapshot.
C29_InstructionsJustified ==
    IsSome(sync_request) =>
        LET req == Unwrap(sync_request)
            client == req.client_sync_state
        IN \A i \in DOMAIN instructions :
              LET path == instructions[i].path
                  latest == get_latest_event(history, req.wg_id, path)
              IN /\ instructions[i].kind = "Download" =>
                       (IsSome(latest) /\ Unwrap(latest).event_type = ChangeEvent)
                 /\ instructions[i].kind = "Delete" =>
                       /\ IsSome(latest) /\ Unwrap(latest).event_type = DeleteEvent
                       /\ \E j \in DOMAIN client :
                             /\ client[j].relative_path = path
                             /\ client[j].last_updated_utc_millis < Unwrap(latest).utc_millis
                 /\ instructions[i].kind = "Upload" =>
                       \E j \in DOMAIN client : client[j].relative_path = path

\* a sync answered with a Download for one path and a Delete for another
C29_Witness ==
    /\ IsSome(sync_request)
    /\ \E i, j \in DOMAIN instructions :
          instructions[i].kind = "Download" /\ instructions[j].kind = "Delete"

\* C30: when the paths of the snapshot are pairwise distinct, no two
\* instructions of the response name the same path.
C30_OneInstructionPerPath ==
    (IsSome(sync_request)
        /\ PairwiseDistinctPaths(Unwrap(sync_request).client_sync_state))
    => \A i, j \in DOMAIN instructions :
          i /= j => instructions[i].path /= instructions[j].path

\* a snapshot of two paths answered with two instructions, one of them for
\* a path the history holds
C30_Witness ==
    /\ IsSome(sync_request)
    /\ PairwiseDistinctPaths(Unwrap(sync_request).client_sync_state)
    /\ Len(Unwrap(sync_request).client_sync_state) = 2
    /\ Len(instructions) = 2
    /\ \E i \in DOMAIN instructions :
          IsSome(get_latest_event(history, Unwrap(sync_request).wg_id,
                                  instructions[i].path))

\* C26: the remembered last scan of a watch group changes only in a step
\* that ends a poll cycle in which every delete request and the sync
\* request succeeded
C26_LastScanKeptOnFailure ==
    [][\A c \in Pollers :
          last_scans'[c] /= last_scans[c] => ~poll'[c].lost]_vars

\* C27 as stated: once a Delete(p) instruction has removed p, the client
\* makes no second delete request for p, and it has made the one request
\* when the delete requests of its next poll cycle are over
C27_OneReverbNextCycle ==
    \A c \in Pollers : \A p \in DOMAIN poll[c].reverb :
        /\ poll[c].reverb[p].sent <= 1
        /\ (poll[c].reverb[p].cycles >= 1 /\ poll[c].pc /= "deletes")
              => poll[c].reverb[p].sent = 1

\* C27: once a Delete(p) instruction has removed p, the client makes no
\* second delete request for p, and it has made the one request when the
\* delete requests of its next poll cycle with a successful scan are over
C27_OneReverbNextScan ==
    \A c \in Pollers : \A p \in DOMAIN poll[c].reverb :
        /\ poll[c].reverb[p].sent <= 1
        /\ (poll[c].reverb[p].scans >= 1 /\ poll[c].pc /= "deletes")
              => poll[c].reverb[p].sent = 1

\* the one delete request for p was made and a later cycle with a
\* successful scan made none
C27_Witness ==
    \E c \in Pollers : \E p \in DOMAIN poll[c].reverb :
        /\ poll[c].reverb[p].sent = 1
        /\ poll[c].reverb[p].scans >= 2
        /\ poll[c].pc = "sleep"

ClientSizes(c) ==
    [p \in DOMAIN client_files[c] |-> client_files[c][p].size_in_bytes]

\* the paths and sizes of the files of the mirrored tree of watch group 1
MirroredSizes ==
    LET root == upload_path_for_wg(1)
        stored == {p \in PollPaths : IsFile(upload, root \o p)}
    IN [p \in stored |-> Len(upload[root \o p].content)]

EventPaths(wg) == {e.relative_path : e \in LatestOf(wg)}

\* C31: in the response to a sync request no instruction for a path the
\* history lacks stands before an instruction for a path the history
\* holds, and the instructions for the paths the history lacks are the
\* Uploads of the snapshot's descriptions of such paths, in the order of
\* the snapshot.
C31_EventsThenClientOnlyUploads ==
    IsSome(sync_request) =>
        LET req == Unwrap(sync_request)
            ClientOnly(x) == x \notin EventPaths(req.wg_id)
            OnlyPath(i) == ClientOnly(i.path)
            OnlyDesc(d) == ClientOnly(d.relative_path)
            uploads == SelectSeq(req.client_sync_state, OnlyDesc)
        IN /\ \A i, j \in DOMAIN instructions :
                 (i < j /\ ClientOnly(instructions[i].path))
                     => ClientOnly(instructions[j].path)
           /\ SelectSeq(instructions, OnlyPath)
                 = [k \in DOMAIN uploads |-> Upload(uploads[k].relative_path)]

\* an instruction for a path of the history followed by the Uploads of two
\* different paths the history lacks, named by the snapshot in the order
\* b, a
C31_Witness ==
    /\ IsSome(sync_request)
    /\ Len(instructions) = 3
    /\ instructions[1].path \in EventPaths(Unwrap(sync_request).wg_id)
    /\ instructions[2] = Upload(<< <<"b">> >>)
    /\ instructions[3] = Upload(<< <<"a">> >>)

\* the step serves a download request
DownloadStep == tasks'[1].kind = "download" /\ requests' /= requests

\* the step serves a sync request
SyncStep == sync_request' /= sync_request \/ instructions' /= instructions

\* C32: a step that serves a sync request or a download request leaves
\* the History, the file_event rows and the mirrored tree as they are,
\* for every payload of the download and whether it is answered with the
\* file or with 404; a download whose path names nothing in the mirrored
\* tree is answered 404.
C32_SyncAndDownloadChangeNothing ==
    [][/\ (DownloadStep \/ SyncStep) => UNCHANGED <<history, db, upload>>
       /\ \A wg_id \in WatchGroups, payload \in RawPaths :
             (/\ ~Exists(upload, upload_path_for_wg(wg_id) \o FromSegments(payload).path)
              /\ DownloadStep
              /\ DownloadStart(1, wg_id, payload))
             => tasks'[1].status = NOT_FOUND]_vars

\* with an event in the History, a row in the table and a file in the
\* mirrored tree, a sync request was served and a download was answered 404
C32_Witness ==
    /\ Keys(history) /= {}
    /\ Len(db) > 0
    /\ \E q \in DOMAIN upload : IsFile(upload, q)
    /\ sync_request /= None
    /\ tasks[1].kind = "download"
    /\ tasks[1].status = NOT_FOUND

\* C33: a task that holds the guard of the History's mutex is not at a
\* step that waits for the network, the filesystem or the database (it has
\* not ended and none of its waiting steps is the next one), and the
\* statement that ends with the release of the guard can run at once; so
\* a task that waits for the lock waits for no suspended task.
C33_GuardNotHeldAcrossWait ==
    \A s \in Slots :
        tasks[s].guard =>
            /\ ~Ended(tasks[s])
            /\ ~ENABLED Waits(s)
            /\ ENABLED Guarded(s)

\* a task holds the guard for its add while the other task stands at its
\* own call of a History method
C33_Witness ==
    \E s, r \in Slots :
        /\ s /= r
        /\ tasks[s].guard /\ tasks[s].pc = "inserted"
        /\ AtHistoryCall(tasks[r])

\* C34: after bulk_insert the table holds a row for every element of the
\* batch whose INSERT does not fail, also for the elements that follow one
\* whose INSERT fails.
C34_BulkInsertBestEffort ==
    (IsSome(arg) /\ IsSome(ret)) =>
        LET batch == Unwrap(arg)
        IN \A i \in DOMAIN batch.events :
              batch.sql_oks[i] =>
                  \E k \in DOMAIN db :
                      /\ db[k].event = batch.events[i].event
                      /\ db[k].client_id = batch.events[i].client_id

\* C35: when the creation of a required directory has failed, the server
\* is not serving requests, and a server that has ended its boot has ended
\* it with a status other than 0.
C35_FailedDirectoryStopsBoot ==
    (IsSome(ret) /\ Unwrap(ret).spawned = "err") =>
        /\ ~Unwrap(ret).serving
        /\ Unwrap(ret).pc \in {"serving", "exited"} =>
              (IsSome(Unwrap(ret).exit) /\ Unwrap(Unwrap(ret).exit) /= 0)

\* the file f of the scanned tree passes the three tests of C36
Listed(a, f) ==
    /\ a.exclude_dot_dirs => \A i \in DOMAIN f : Head(f[i]) /= "."
    /\ \A excl \in a.exclude_dirs : \A i \in DOMAIN f :
          ~Contains(EntryPath(a.root, SubSeq(f, 1, i)), excl)
    /\ to_lowercase(Last(f)) /= DsStore

\* C36: the descriptions get_all_file_descriptions returns are, each once,
\* those of the files below the root for which: with exclude_dot_dirs set
\* neither the file's name nor the name of a directory between the root
\* and the file starts with '.'; no string of exclude_dirs is a substring
\* of the path of the file or of a directory between the root and the
\* file; and the file's name is not .DS_Store in any letter case.
C36_ScanListsExactlyTheIncluded ==
    (IsSome(arg) /\ IsSome(ret)) =>
        LET a == Unwrap(arg)
            found == Unwrap(ret)
        IN /\ {found[i].relative_path : i \in DOMAIN found}
                 = {f \in a.files : Listed(a, f)}
           /\ \A i, j \in DOMAIN found :
                 i /= j => found[i].relative_path /= found[j].relative_path

\* the tree of the example, keep.txt, .obsidian/x, node_modules/y and
\* src/main.rs, as k, .o/k, n/k and d/k, scanned with exclude_dot_dirs and
\* exclude_dirs = {"n"}: k and d/k are returned
C36_Witness ==
    /\ IsSome(arg) /\ IsSome(ret)
    /\ Unwrap(arg).files = {<<ScanNames[1]>>, <<ScanNames[6], ScanNames[1]>>,
                             <<ScanNames[7], ScanNames[1]>>,
                             <<ScanNames[5], ScanNames[1]>>}
    /\ Unwrap(arg).exclude_dot_dirs
    /\ Unwrap(arg).exclude_dirs = {<<"n">>}
    /\ Unwrap(arg).root = <<"r">>
    /\ {Unwrap(ret)[i].relative_path : i \in DOMAIN Unwrap(ret)}
          = {<<ScanNames[1]>>, <<ScanNames[5], ScanNames[1]>>}

\* the bindings of client_id to the watch groups other than wg, with their
\* excluded dirs
OtherBindings(d, client_id, wg) ==
    LET rows == SelectSeq(GroupRows(d, client_id),
                          LAMBDA r : r.server_watch_group_id /= wg)
    IN [i \in DOMAIN rows |->
          [row |-> rows[i],
           dirs |-> SelectSeq(d.excluded_dir,
                              LAMBDA r : r.client_watch_group = rows[i].id)]]

\* C37: a step of update_single_watch_group(client, wg, ..) leaves the
\* rows of the other clients, the client's host name and the client's
\* bindings to the watch groups other than wg as they are; for a client
\* without a row it answers "not found" and leaves the tables as they are.
C37_UpdateTouchesOneBinding ==
    [][(config_tasks'[1].kind = "api_update_config" /\ requests' /= requests) =>
          LET id == config_tasks'[1].client_id
              wg == config_tasks'[1].watch_group_id
          IN /\ OtherRows(config_db', id) = OtherRows(config_db, id)
             /\ OtherBindings(config_db', id, wg) = OtherBindings(config_db, id, wg)
             /\ id \in DOMAIN config_db.client =>
                   /\ id \in DOMAIN config_db'.client
                   /\ config_db'.client[id].host_name = config_db.client[id].host_name
             /\ id \notin DOMAIN config_db.client =>
                   /\ config_db' = config_db
                   /\ config_tasks'[1].status \in {NOT_FOUND, INTERNAL_SERVER_ERROR}]_vars

\* the files of the writer's directory that match its prefix
WriterFiles == list_existing_files(Unwrap(arg), Unwrap(ret).dir)

\* C38: after RotatingFileWriter::new and after every write_line the
\* directory holds at most max_files files that match the prefix, and every
\* file that was removed is older by file name than every file that is kept.
C38_AtMostMaxFilesOldestRemoved ==
    IsSome(Unwrap(ret).writer) =>
        /\ Len(WriterFiles) <= Unwrap(arg).max_files
        /\ \A r \in Unwrap(ret).removed :
             \A i \in DOMAIN WriterFiles : NameBefore(r, WriterFiles[i])

\* C39: a call that creates a new file (new, or a rotation in write_line)
\* does not create it over a file that holds written lines: the name of the
\* new file is not the name of a file with lines that the pruning has left,
\* whatever the clock reads.
C39_RotationStartsFreshFile ==
    [][(IsSome(ret) /\ IsSome(ret') /\ Unwrap(ret').clock = Unwrap(ret).clock
           /\ IsSome(Unwrap(ret').created)) =>
          LET st == Unwrap(ret)
              w == [Unwrap(Unwrap(ret').writer) EXCEPT !.current_file_path = None]
              left == prune_old_files(w, st.dir)
              path == Unwrap(Unwrap(ret').created)
          IN path \in DOMAIN left => left[path].lines = 0]_vars
====
